---------------------------- MODULE Spec2Model ----------------------------
(***************************************************************************)
(* A model of src/src/ata.c, the polled ATA/ATAPI driver of SeaBIOS.       *)
(*                                                                         *)
(* The driver is a sequential program.  Every function that polls the      *)
(* device is cut into steps at its calls of await_ide: one action per      *)
(* straight-line piece of code between two waits, and one action           *)
(* (AwaitIde) for one iteration of the polling loop.  What the device      *)
(* answers (a status byte, the drive/head register) and how much time      *)
(* passed are inputs of the step that reads them.                          *)
(*                                                                         *)
(* iolog records, since the entry of the running top-level operation,      *)
(* every outb in program order as <<register, value>> and every return of  *)
(* await_ide as <<"await", 0>> (a status) or <<"await", -1>> (timeout).    *)
(***************************************************************************)
EXTENDS Integers, Sequences, FiniteSets, TLC

(***************************************************************************)
(* Program constants.  ata.c:28-31 defines the sector sizes; the register  *)
(* bits and command codes come from atabits.h and disk.h (the ATA          *)
(* standard's values), and are cited at the line of ata.c that uses them.  *)
(***************************************************************************)
IDE_SECTOR_SIZE == 512
CDROM_SECTOR_SIZE == 2048

ATA_CB_STAT_BSY == 128
ATA_CB_STAT_RDY == 64
ATA_CB_STAT_DF == 32
ATA_CB_STAT_DRQ == 8
ATA_CB_STAT_ERR == 1

ATA_CB_DC_HD15 == 8
ATA_CB_DC_SRST == 4
ATA_CB_DC_NIEN == 2

ATA_CB_DH_DEV0 == 160
ATA_CB_DH_DEV1 == 176
ATA_CB_DH_LBA == 64

ATA_CMD_READ_SECTORS == 32
ATA_CMD_WRITE_SECTORS == 48
ATA_CMD_PACKET == 160
ATA_CMD_IDENTIFY_DEVICE_PACKET == 161
ATA_CMD_IDENTIFY_DEVICE == 236

ATA_TYPE_NONE == 0
ATA_TYPE_ATA == 2
ATA_TYPE_ATAPI == 3

ATA_MODE_PIO16 == 0
ATA_MODE_PIO32 == 1

ATA_TRANSLATION_NONE == 0
ATA_TRANSLATION_LBA == 1
ATA_TRANSLATION_LARGE == 2
ATA_TRANSLATION_RECHS == 3

\* Slots of ATA.devices and of ATA.channels.
CONFIG_MAX_ATA_DEVICES == 8
CONFIG_MAX_ATA_INTERFACES == 4

(***************************************************************************)
(* Bounds of the model.                                                    *)
(***************************************************************************)
\* IDE_TIMEOUT in clock ticks: the deadline of a wait is TimeoutTicks ticks
\* after its entry.
TimeoutTicks == 1
\* Largest block count of a disk or cdrom operation descriptor.
MaxCount == 2
\* Blocks one ata_transfer may exchange in the model (count = 0 never
\* reaches current == count, so the loop is cut here).
MaxBlocks == 3
\* Retries of the slave selection in ata_reset.
MaxRetry == 2

\* The two drives of channel 0: master (0) and slave (1).
Drives == {0, 1}
\* The slots of the device table and of the channel table.
Devices == 0..(CONFIG_MAX_ATA_DEVICES - 1)
Channels == 0..(CONFIG_MAX_ATA_INTERFACES - 1)

\* Status bytes the device may answer: idle (RDY|SKC), with ERR, with DRQ,
\* with DRQ|ERR, with DF, and BSY.
StatusSet == {80, 81, 88, 89, 112, 128}
\* Values a read of the drive/head register may give.
DhReads == {ATA_CB_DH_DEV0, ATA_CB_DH_DEV1}

(***************************************************************************)
(* Arithmetic on bytes.                                                    *)
(***************************************************************************)
RECURSIVE BitAnd(_, _)
BitAnd(a, b) ==
    IF a = 0 \/ b = 0 THEN 0
    ELSE (a % 2) * (b % 2) + 2 * BitAnd(a \div 2, b \div 2)

BitOr(a, b) == a + b - BitAnd(a, b)
BitXor(a, b) == a + b - 2 * BitAnd(a, b)
\* x & ~m
BitClear(x, m) == x - BitAnd(x, m)
\* (u8)x
U8(x) == x % 256
U16(x) == x % 65536

Out(reg, val) == <<reg, val>>
Last(s) == s[Len(s)]
Dec(n, dt) == IF n > dt THEN n - dt ELSE 0

(***************************************************************************)
(* A 48-bit lba is kept as two 24-bit limbs, lba = hi * 2^24 + lo.         *)
(***************************************************************************)
Lba(hi, lo) == [hi |-> hi, lo |-> lo]
P24 == 16777216
P28 == 268435456

VARIABLES
    devtype,        \* ATA.devices[driveid].type
    devmode,        \* ATA.devices[driveid].mode
    blksize,        \* ATA.devices[driveid].blksize
    geom,           \* ATA.devices[driveid]: translation, sectors, pchs, lchs
    iobase,         \* ATA.channels[channel]: iobase1, iobase2
    idmap,          \* ATA.idmap[0] (hard disks) and ATA.idmap[1] (cdroms)
    cdcount,        \* ATA.cdcount
    hdcount,        \* the BDA's hdcount
    fdpt,           \* the EBDA's fdpt[0] and fdpt[1]
    cfg,            \* the build (CONFIG_COREBOOT) and the CMOS translation
                    \* flags
    det,            \* ata_detect: its locals, and what it did to each unit
    other,          \* the locals of a second operation that is suspended
    sector_count,   \* the EBDA progress counter
    pc,             \* position of the program
    call,           \* the top-level operation that is running
    op,             \* struct disk_op_s
    cmd,            \* struct ata_pio_command
    pkt,            \* cmdlen and length of ata_cmd_packet, the cdrom packet
    emu,            \* locals of cdrom_read_512
    xf,             \* parameters of ata_transfer
    aw,             \* await_ide: mask, flags, the status of the last poll,
                    \* and the polls made with the deadline reached
    left,           \* ticks left to the deadline of await_ide at the last
                    \* poll or reading of the clock
    retpc,          \* where the running await_ide returns to
    rleft,          \* ticks left to the deadline of ata_reset's slave loop
    retries,        \* iterations of ata_reset's slave loop
    olddh,          \* send_cmd's olddh
    status,         \* the value await_ide returned last
    sres,           \* the value send_cmd returned
    xret,           \* the value ata_transfer returned
    ret,            \* the value the top-level operation returned
    current,        \* ata_transfer's current
    nblk,           \* blocks exchanged on the data port
    stored,         \* bytes read from the data port into the buffer
    discarded,      \* bytes read from the data port and thrown away
    written,        \* bytes written from the buffer to the data port
    iolog           \* register writes and waits of the running operation

\* What no operation on a drive writes: the tables hard_drive_setup fills,
\* the BIOS drive numbering, and the configuration.
devs == <<devtype, devmode, blksize, geom, iobase, idmap, cdcount, hdcount,
          fdpt, cfg>>
\* What lies outside the running operation.
env == <<det, other>>
args == <<op, cmd, pkt, emu, xf>>
waitv == <<aw, left, retpc>>
resetv == <<rleft, retries>>
results == <<sres, xret, ret>>
xferv == <<current, nblk, stored, discarded, written>>
vars == <<devtype, devmode, blksize, geom, iobase, idmap, cdcount, hdcount,
          fdpt, cfg, det, other, sector_count, pc, call, op, cmd, pkt, emu, xf,
          aw, left, retpc, rleft, retries, olddh, status, sres, xret, ret,
          current, nblk, stored, discarded, written, iolog>>

NoOp == [driveid |-> 0, command |-> 0, lba |-> Lba(0, 0), count |-> 0]
NoCmd == [feature |-> 0, sector_count |-> 0, lba_low |-> 0, lba_mid |-> 0,
          lba_high |-> 0, device |-> 0, command |-> 0, sector_count2 |-> 0,
          lba_low2 |-> 0, lba_mid2 |-> 0, lba_high2 |-> 0]
NoPkt == [cmdlen |-> 0, length |-> 0, atacmd |-> <<>>]
NoEmu == [vlba |-> 0, vcount |-> 0, lba |-> 0, elba |-> 0, before |-> 0,
          after |-> 0]
NoXf == [iswrite |-> FALSE, count |-> 0, blocksize |-> 0, skipfirst |-> 0,
         skiplast |-> 0]
NoAw == [mask |-> 0, flags |-> 0, status |-> 0, late |-> 0]

(***************************************************************************)
(* The tables of the driver: ATA.devices, ATA.channels, ATA.idmap,         *)
(* ATA.cdcount, the BDA's hdcount and the EBDA's two fixed-disk parameter  *)
(* tables.                                                                 *)
(***************************************************************************)
Chs(c, h, s) == [cylinders |-> c, heads |-> h, spt |-> s]
NoGeom == [translation |-> 0, sectors |-> 0, pchs |-> Chs(0, 0, 0),
           lchs |-> Chs(0, 0, 0)]
NoChannel == [iobase1 |-> 0, iobase2 |-> 0]
NoFdpt == [precompensation |-> 0, drive_control_byte |-> 0,
           landing_zone |-> 0, cylinders |-> 0, heads |-> 0, sectors |-> 0,
           a0h_signature |-> 0, phys_cylinders |-> 0, phys_heads |-> 0,
           phys_sectors |-> 0, checksum |-> 0]
\* ata.c:809-812: every entry of both id maps names no device.
NoIdmap == [t \in 0..1 |-> [n \in Devices |-> CONFIG_MAX_ATA_DEVICES]]
\* ata_detect is not running.
\* What ata_detect did to a unit: nothing yet.
\* echo: what the probe read back; atapi, ata: the identification was
\* "sent", and "passed" or "failed"; st: the status read was "zero" or
\* "set"; rdy: the wait ended "ready" or by "timeout".
NoSeen == [echo |-> <<>>, reset |-> FALSE, atapi |-> "no", st |-> "no",
           rdy |-> "no", ata |-> "no"]
NoDet == [phase |-> "over", driveid |-> 0, last_reset_driveid |-> -1,
          seen |-> [d \in Devices |-> NoSeen]]
NoOther == [used |-> FALSE]

\* ata.c:749: the channel of a drive; ata.c:750: its position on it.
ChannelOf(driveid) == driveid \div 2
SlaveOf(driveid) == driveid % 2

(***************************************************************************)
(* get_translation (ata.c:511-533) and setup_translation (ata.c:535-607).  *)
(***************************************************************************)
\* cylinders * heads is computed in int (ata.c:530): beyond INT_MAX the
\* multiplication overflows.
IntMax == 2147483647
MulOverflows(a, b) == b > 0 /\ a > IntMax \div b

\* ata.c:516-520: the two CMOS bits of the drive.
CmosTranslations == {ATA_TRANSLATION_NONE, ATA_TRANSLATION_LBA,
                     ATA_TRANSLATION_LARGE, ATA_TRANSLATION_RECHS}

\* ata.c:524-532: the heuristic: the set of the results the build can
\* produce (one result, unless the multiplication overflows).
HeuristicTranslations(pchs) ==
    IF pchs.cylinders <= 1024 /\ pchs.heads <= 16 /\ pchs.spt <= 63
    THEN {ATA_TRANSLATION_NONE}
    ELSE IF MulOverflows(pchs.cylinders, pchs.heads)
         THEN {ATA_TRANSLATION_LARGE, ATA_TRANSLATION_LBA}
         ELSE IF pchs.cylinders * pchs.heads <= 131072
              THEN {ATA_TRANSLATION_LARGE}
              ELSE {ATA_TRANSLATION_LBA}

\* ata.c:511-533: with coreboot the heuristic, else the CMOS flags.
get_translation(coreboot, pchs) ==
    IF coreboot THEN HeuristicTranslations(pchs) ELSE CmosTranslations

\* A variant of the ladder without its 128 rung.
LbaHeads_No128(h) ==
    IF h > 64 THEN 255
    ELSE IF h > 32 THEN 64
    ELSE IF h > 16 THEN 32
    ELSE 16

\* ata.c:563-573: the ladder of head counts.
LbaHeads(h) ==
    IF h > 128 THEN 255
    ELSE IF h > 64 THEN 128
    ELSE IF h > 32 THEN 64
    ELSE IF h > 16 THEN 32
    ELSE 16

\* A variant that rounds the cylinders up.
TranslateLba_RoundUp(sectors) ==
    IF sectors > 63 * 255 * 1024
    THEN Chs(1024, 255, 63)
    ELSE LET sect == sectors \div 63
             heads == LbaHeads(U16(sect \div 1024))
         IN  Chs(U16(sect \div heads + 1), heads, 63)

\* ata.c:554-575: LBA-assist.
TranslateLba(sectors) ==
    IF sectors > 63 * 255 * 1024
    THEN Chs(1024, 255, 63)
    ELSE LET sect == sectors \div 63
             heads == LbaHeads(U16(sect \div 1024))
         IN  Chs(U16(sect \div heads), heads, 63)

\* ata.c:588-597: halve the cylinders and double the heads.
RECURSIVE TranslateLarge(_)
TranslateLarge(chs) ==
    IF chs.cylinders > 1024
    THEN LET c == chs.cylinders \div 2
             h == U16(chs.heads * 2)
         IN  IF h > 127
             THEN Chs(c, h, chs.spt)
             ELSE TranslateLarge(Chs(c, h, chs.spt))
    ELSE chs

\* A variant without the limit of 61439 cylinders.
TranslateRechs_NoLimit(chs) ==
    IF chs.heads = 16
    THEN Chs(U16((chs.cylinders * 16) \div 15), 15, chs.spt)
    ELSE chs

\* ata.c:576-584: revised ECHS, before it goes on as LARGE.
TranslateRechs(chs) ==
    IF chs.heads = 16
    THEN LET c == IF chs.cylinders > 61439 THEN 61439 ELSE chs.cylinders
         IN  Chs(U16((c * 16) \div 15), 15, chs.spt)
    ELSE chs

\* A variant without the clamp.
ClampCylinders_Off(chs) == chs

\* ata.c:598-601: clamp the cylinders.
ClampCylinders(chs) ==
    IF chs.cylinders > 1024 THEN [chs EXCEPT !.cylinders = 1024] ELSE chs

\* ata.c:535-607: the logical geometry for a translation.
setup_translation(translation, pchs, sectors) ==
    ClampCylinders(
        CASE translation = ATA_TRANSLATION_NONE -> pchs
          [] translation = ATA_TRANSLATION_LBA -> TranslateLba(sectors)
          [] translation = ATA_TRANSLATION_RECHS ->
                 TranslateLarge(TranslateRechs(pchs))
          [] translation = ATA_TRANSLATION_LARGE -> TranslateLarge(pchs))

\* The locals of an operation before it starts.
Cleared ==
    /\ op = NoOp /\ cmd = NoCmd /\ pkt = NoPkt /\ emu = NoEmu /\ xf = NoXf
    /\ aw = NoAw /\ left = 0 /\ retpc = "none" /\ rleft = 0 /\ retries = 0
    /\ olddh = 0 /\ status = 0 /\ sres = 0 /\ xret = 0 /\ ret = 0
    /\ current = 0 /\ nblk = 0 /\ stored = 0 /\ discarded = 0 /\ written = 0
    /\ iolog = <<>>

\* The device table hard_drive_setup leaves: a slot is empty (type none,
\* mode 0), or holds an ATA or ATAPI device in one of the two PIO modes.
\* The tables taken are five in which each slot has each of its five
\* contents once: <<type of drive 0, mode of drive 0, type of drive 1, mode
\* of drive 1>>.
DetectedTables ==
    { <<ATA_TYPE_NONE, ATA_MODE_PIO16, ATA_TYPE_NONE, ATA_MODE_PIO16>>,
      <<ATA_TYPE_ATA, ATA_MODE_PIO16, ATA_TYPE_ATAPI, ATA_MODE_PIO32>>,
      <<ATA_TYPE_ATA, ATA_MODE_PIO32, ATA_TYPE_ATAPI, ATA_MODE_PIO16>>,
      <<ATA_TYPE_ATAPI, ATA_MODE_PIO16, ATA_TYPE_ATA, ATA_MODE_PIO32>>,
      <<ATA_TYPE_ATAPI, ATA_MODE_PIO32, ATA_TYPE_ATA, ATA_MODE_PIO16>> }

\* ata.c:834-835, 847-848: the legacy ports of a controller's two channels.
LegacyPorts ==
    [c \in Channels |->
        IF c = 0 THEN [iobase1 |-> 496, iobase2 |-> 1008]
        ELSE IF c = 1 THEN [iobase1 |-> 368, iobase2 |-> 880]
        ELSE NoChannel]

\* The geometry a detected disk of the table has: 2000/16/63, translated
\* as large.
DiskGeom ==
    [translation |-> ATA_TRANSLATION_LARGE, sectors |-> 2016000,
     pchs |-> Chs(2000, 16, 63),
     lchs |-> setup_translation(ATA_TRANSLATION_LARGE, Chs(2000, 16, 63),
                                2016000)]

\* ata.c:673-675: the cdrom id map of a device table: its ATAPI devices in
\* the order of the scan.
RECURSIVE CdMap(_, _, _, _)
CdMap(types, d, n, m) ==
    IF d \notin Devices THEN m
    ELSE IF types[d] = ATA_TYPE_ATAPI
         THEN CdMap(types, d + 1, n + 1, [m EXCEPT ![n] = d])
         ELSE CdMap(types, d + 1, n, m)

\* The tables as detection leaves them for the given types and modes of
\* the devices.
TablesOf(types, modes) ==
    /\ devtype = types
    /\ devmode = modes
    /\ blksize = [d \in Devices |->
                    IF types[d] = ATA_TYPE_ATA THEN IDE_SECTOR_SIZE
                    ELSE IF types[d] = ATA_TYPE_ATAPI THEN CDROM_SECTOR_SIZE
                    ELSE 0]
    /\ geom = [d \in Devices |->
                 IF types[d] = ATA_TYPE_ATA THEN DiskGeom ELSE NoGeom]
    /\ idmap = [NoIdmap EXCEPT ![1] = CdMap(types, 0, 0, NoIdmap[1])]
    /\ cdcount = Cardinality({d \in Devices : types[d] = ATA_TYPE_ATAPI})

\* No disk is mapped yet, and the scan is over.
Unmapped ==
    /\ hdcount = 0
    /\ fdpt = [n \in 0..1 |-> NoFdpt]
    /\ det = NoDet
    /\ other = NoOther

DeviceTable ==
    \E t \in DetectedTables :
        /\ TablesOf([d \in Devices |-> IF d = 0 THEN t[1]
                                       ELSE IF d = 1 THEN t[3]
                                       ELSE ATA_TYPE_NONE],
                    [d \in Devices |-> IF d = 0 THEN t[2]
                                       ELSE IF d = 1 THEN t[4]
                                       ELSE ATA_MODE_PIO16])
        /\ iobase = LegacyPorts
        /\ cfg = [coreboot |-> TRUE]
        /\ Unmapped

\* After hard_drive_setup: the progress counter is 1 if an IDENTIFY of the
\* detection exchanged its block, 0 otherwise.
Init ==
    /\ DeviceTable
    /\ sector_count \in {0, 1}
    /\ pc = "idle" /\ call = "none"
    /\ Cleared

(***************************************************************************)
(* await_ide (ata.c:41-54).  AwaitCall is the entry: the deadline is set   *)
(* TimeoutTicks ahead.  AwaitIde is one iteration of the loop: dp ticks    *)
(* after the last reading of the clock the status is polled, and a match   *)
(* returns it; otherwise, dc ticks later, the clock is read, and at or     *)
(* past the deadline -1 is returned.  aw and left keep what the last       *)
(* iteration saw until the next wait starts; aw.status is -1 before the    *)
(* first poll.                                                             *)
(***************************************************************************)
AwaitCall(mask, flags, rp) ==
    /\ aw' = [mask |-> mask, flags |-> flags, status |-> -1, late |-> 0]
    /\ left' = TimeoutTicks
    /\ retpc' = rp
    /\ pc' = "await_ide"

await_not_bsy(rp) == AwaitCall(ATA_CB_STAT_BSY, 0, rp)
await_rdy(rp) == AwaitCall(ATA_CB_STAT_RDY, ATA_CB_STAT_RDY, rp)

AwaitMatch(st) == BitAnd(st, aw.mask) = aw.flags
\* A variant that gives up one tick before the deadline.
AwaitExpired_Early(l) == l <= 1

\* ata.c:49: rdtscll() >= end
AwaitExpired(l) == l = 0

AwaitReturn(v) ==
    /\ status' = v
    /\ iolog' = Append(iolog, Out("await", IF v < 0 THEN -1 ELSE 0))
    /\ pc' = retpc
    /\ retpc' = "none"

AwaitIde ==
    /\ pc = "await_ide"
    /\ \E st \in StatusSet, dp \in 0..1 :
        LET atpoll == Dec(left, dp)
        IN  /\ aw' = [aw EXCEPT !.status = st,
                                !.late = IF atpoll = 0 THEN @ + 1 ELSE @]
            /\ IF AwaitMatch(st)
               THEN /\ AwaitReturn(st)
                    /\ left' = atpoll
                    /\ rleft' = Dec(rleft, dp)
               ELSE \E dc \in 0..1 :
                    LET atclock == Dec(atpoll, dc)
                    IN  /\ left' = atclock
                        /\ rleft' = Dec(rleft, dp + dc)
                        /\ IF AwaitExpired(atclock)
                           THEN AwaitReturn(-1)
                           ELSE UNCHANGED <<pc, retpc, status, iolog>>
    /\ UNCHANGED <<devs, env, sector_count, call, args, retries, olddh, results,
                   xferv>>

(***************************************************************************)
(* Call and return of a top-level operation.                               *)
(***************************************************************************)
Enter(name, entry) ==
    /\ pc = "idle"
    /\ call' = name
    /\ pc' = entry

\* The operation returned v to its caller.
Leave(v) ==
    /\ ret' = v
    /\ pc' = "done"

\* The locals of the finished operation are gone.
Unwind ==
    /\ op' = NoOp /\ cmd' = NoCmd /\ pkt' = NoPkt /\ emu' = NoEmu
    /\ xf' = NoXf /\ aw' = NoAw /\ left' = 0 /\ retpc' = "none"
    /\ rleft' = 0 /\ retries' = 0 /\ olddh' = 0 /\ status' = 0
    /\ sres' = 0 /\ xret' = 0 /\ ret' = 0
    /\ current' = 0 /\ nblk' = 0 /\ stored' = 0 /\ discarded' = 0
    /\ written' = 0 /\ iolog' = <<>>

\* The caller goes on (ata_detect's calls return to ata_detect instead):
\* the device table and the progress counter stay.
Return ==
    /\ pc = "done"
    /\ det.phase = "over"
    /\ pc' = "idle" /\ call' = "none"
    /\ Unwind
    /\ UNCHANGED <<devs, env, sector_count>>

(***************************************************************************)
(* ata_reset (ata.c:89-136)                                                *)
(***************************************************************************)
CallAtaReset(driveid) ==
    /\ Enter("ata_reset", "ata_reset")
    /\ op' = [NoOp EXCEPT !.driveid = driveid]
    /\ UNCHANGED <<devs, env, sector_count, cmd, pkt, emu, xf, waitv, resetv,
                   olddh, status, results, xferv, iolog>>

\* ata.c:98-105: pulse SRST, then wait for not-busy.
AtaResetPulse ==
    /\ pc = "ata_reset"
    /\ iolog' = iolog \o
         << Out("DC", ATA_CB_DC_HD15 + ATA_CB_DC_NIEN + ATA_CB_DC_SRST),
            Out("DC", ATA_CB_DC_HD15 + ATA_CB_DC_NIEN) >>
    /\ await_not_bsy("reset_notbsy")
    /\ UNCHANGED <<devs, env, sector_count, call, args, resetv, olddh, status,
                   results, xferv>>

\* ata.c:106-113: after the first wait.
AtaResetSelect ==
    /\ pc = "reset_notbsy"
    /\ IF status < 0
       THEN /\ pc' = "reset_done"
            /\ UNCHANGED <<waitv, resetv, iolog>>
       ELSE IF op.driveid % 2 = 1
            THEN /\ rleft' = TimeoutTicks
                 /\ retries' = 0
                 /\ iolog' = Append(iolog, Out("DH", ATA_CB_DH_DEV1))
                 /\ await_not_bsy("reset_slave")
            ELSE /\ pc' = "reset_type"
                 /\ UNCHANGED <<waitv, resetv, iolog>>
    /\ UNCHANGED <<devs, env, sector_count, call, args, olddh, status, results,
                   xferv>>

\* ata.c:114-123: after a wait of the slave loop; dh is what the drive/head
\* register reads, dt the ticks up to the reading of the clock.
AtaResetSlave ==
    /\ pc = "reset_slave"
    /\ \E dh \in DhReads, dt \in 0..1 :
        IF status < 0
        THEN /\ pc' = "reset_done"
             /\ UNCHANGED <<waitv, resetv, iolog>>
        ELSE IF dh = ATA_CB_DH_DEV1
             THEN /\ pc' = "reset_type"
                  /\ UNCHANGED <<waitv, resetv, iolog>>
             ELSE IF Dec(rleft, dt) = 0
                  THEN /\ pc' = "reset_done"
                       /\ rleft' = 0
                       /\ UNCHANGED <<waitv, retries, iolog>>
                  ELSE /\ retries < MaxRetry
                       /\ retries' = retries + 1
                       /\ rleft' = Dec(rleft, dt)
                       /\ iolog' = Append(iolog, Out("DH", ATA_CB_DH_DEV1))
                       /\ await_not_bsy("reset_slave")
    /\ UNCHANGED <<devs, env, sector_count, call, args, olddh, status, results,
                   xferv>>

\* ata.c:126-129: wait for RDY if it is an ATA device.
AtaResetType ==
    /\ pc = "reset_type"
    /\ IF devtype[op.driveid] = ATA_TYPE_ATA
       THEN await_rdy("reset_rdy")
       ELSE pc' = "reset_done" /\ UNCHANGED waitv
    /\ UNCHANGED <<devs, env, sector_count, call, args, resetv, olddh, status,
                   results, xferv, iolog>>

AtaResetRdy ==
    /\ pc = "reset_rdy"
    /\ pc' = "reset_done"
    /\ UNCHANGED <<devs, env, sector_count, call, args, waitv, resetv, olddh,
                   status, sres, xret, ret, xferv, iolog>>

\* A variant of the label done that leaves on a timeout without the write.
AtaResetDone_OnlyOnSuccess ==
    /\ pc = "reset_done"
    /\ iolog' = IF status < 0 THEN iolog
                ELSE Append(iolog, Out("DC", ATA_CB_DC_HD15))
    /\ Leave(0)
    /\ UNCHANGED <<devs, env, sector_count, call, args, waitv, resetv, olddh,
                   status, sres, xret, xferv>>

\* ata.c:131-135: the label done.
AtaResetDone ==
    /\ pc = "reset_done"
    /\ iolog' = Append(iolog, Out("DC", ATA_CB_DC_HD15))
    /\ Leave(0)
    /\ UNCHANGED <<devs, env, sector_count, call, args, waitv, resetv, olddh,
                   status, sres, xret, xferv>>

AtaReset ==
    \/ AtaResetPulse \/ AtaResetSelect \/ AtaResetSlave
    \/ AtaResetType \/ AtaResetRdy \/ AtaResetDone


(***************************************************************************)
(* send_cmd (ata.c:159-214)                                                *)
(***************************************************************************)
\* ata.c:174-175
NewDh(c, slave) ==
    BitOr(BitClear(c.device, ATA_CB_DH_DEV1),
          IF slave = 1 THEN ATA_CB_DH_DEV1 ELSE ATA_CB_DH_DEV0)

\* ata.c:178: (olddh ^ newdh) & (1<<4)
DeviceChange(old, new) == BitAnd(BitXor(old, new), 16) # 0

\* ata.c:185: cmd->command & 0x04
ExtendedForm(command) == BitAnd(command, 4) # 0

\* A variant that writes the command code before the cylinder registers.
CommandWrites_CmdEarly(c) ==
    (IF ExtendedForm(c.command)
     THEN << Out("FR", 0), Out("SC", c.sector_count2), Out("SN", c.lba_low2),
             Out("CL", c.lba_mid2), Out("CH", c.lba_high2) >>
     ELSE << >>)
    \o << Out("FR", c.feature), Out("SC", c.sector_count),
          Out("SN", c.lba_low), Out("CMD", c.command), Out("CL", c.lba_mid),
          Out("CH", c.lba_high) >>

\* ata.c:185-197: the writes of the command block, the command code last.
CommandWrites(c) ==
    (IF ExtendedForm(c.command)
     THEN << Out("FR", 0), Out("SC", c.sector_count2), Out("SN", c.lba_low2),
             Out("CL", c.lba_mid2), Out("CH", c.lba_high2) >>
     ELSE << >>)
    \o << Out("FR", c.feature), Out("SC", c.sector_count),
          Out("SN", c.lba_low), Out("CL", c.lba_mid), Out("CH", c.lba_high),
          Out("CMD", c.command) >>

\* A variant that tests DRQ before ERR.
SendCmdResult_DrqFirst(st) ==
    IF st < 0 THEN st
    ELSE IF BitAnd(st, ATA_CB_STAT_DRQ) = 0 THEN -5
    ELSE IF BitAnd(st, ATA_CB_STAT_ERR) # 0 THEN -4
    ELSE 0

\* ata.c:199-213: the value returned for the status of the last wait.
SendCmdResult(st) ==
    IF st < 0 THEN st
    ELSE IF BitAnd(st, ATA_CB_STAT_ERR) # 0 THEN -4
    ELSE IF BitAnd(st, ATA_CB_STAT_DRQ) = 0 THEN -5
    ELSE 0

\* ata.c:167-171: interrupts off, then the first wait.
SendCmdEntry ==
    /\ iolog' = Append(iolog, Out("DC", ATA_CB_DC_HD15 + ATA_CB_DC_NIEN))
    /\ await_not_bsy("sc_select")

\* send_cmd returns v to send_cmd_disk or to send_atapi_cmd.
SendCmdReturn(v) ==
    /\ sres' = v
    /\ pc' = IF call \in {"ata_cmd_data", "send_cmd_disk"}
             THEN "cmd_data_ret" ELSE "atapi_ret"

\* ata.c:185-199: write the command block, wait for the answer.
IssueCommand(log) ==
    /\ iolog' = log \o CommandWrites(cmd)
    /\ await_not_bsy("sc_status")

\* ata.c:172-183: after the first wait, select the device.
SendCmdSelect ==
    /\ pc = "sc_select"
    /\ IF status < 0
       THEN /\ SendCmdReturn(status)
            /\ UNCHANGED <<waitv, olddh, iolog>>
       ELSE \E dh \in DhReads :
            LET newdh == NewDh(cmd, op.driveid % 2)
                log == Append(iolog, Out("DH", newdh))
            IN  /\ olddh' = dh
                /\ IF DeviceChange(dh, newdh)
                   THEN iolog' = log /\ await_not_bsy("sc_settle")
                   ELSE IssueCommand(log)
                /\ UNCHANGED sres
    /\ UNCHANGED <<devs, env, sector_count, call, args, resetv, status, xret, ret,
                   xferv>>

\* ata.c:180-183: after the wait that follows a change of device.
SendCmdSettle ==
    /\ pc = "sc_settle"
    /\ IF status < 0
       THEN SendCmdReturn(status) /\ UNCHANGED <<waitv, iolog>>
       ELSE IssueCommand(iolog) /\ UNCHANGED sres
    /\ UNCHANGED <<devs, env, sector_count, call, args, resetv, olddh, status,
                   xret, ret, xferv>>

\* ata.c:200-213: after the wait that follows the command.
SendCmdStatus ==
    /\ pc = "sc_status"
    /\ SendCmdReturn(SendCmdResult(status))
    /\ UNCHANGED <<devs, env, sector_count, call, args, waitv, resetv, olddh,
                   status, xret, ret, xferv, iolog>>

SendCmd == SendCmdSelect \/ SendCmdSettle \/ SendCmdStatus

(***************************************************************************)
(* send_cmd_disk and ata_cmd_data (ata.c:353-390)                          *)
(***************************************************************************)
\* ata.c:362: op->count >= (1<<8) || lba + op->count >= (1<<28)
NeedsExtended(o) ==
    \/ o.count >= 256
    \/ o.lba.hi >= 16
    \/ o.lba.hi * P24 + o.lba.lo + o.count >= P28

\* A variant that shifts lba by 40 for lba_mid2 and by 32 for lba_high2.
SendCmdDiskCmd_Swapped(o) ==
    LET ext == NeedsExtended(o)
        hi == IF ext THEN 0 ELSE o.lba.hi
        lo == o.lba.lo
    IN  [ feature       |-> 0,
          sector_count  |-> U8(o.count),
          lba_low       |-> U8(lo),
          lba_mid       |-> U8(lo \div 256),
          lba_high      |-> U8(lo \div 65536),
          device        |-> BitOr(hi % 16, ATA_CB_DH_LBA),
          command       |-> IF ext THEN BitOr(o.command, 4) ELSE o.command,
          sector_count2 |-> IF ext THEN U8(o.count \div 256) ELSE 0,
          lba_low2      |-> IF ext THEN U8(o.lba.hi) ELSE 0,
          lba_mid2      |-> IF ext THEN U8(o.lba.hi \div 65536) ELSE 0,
          lba_high2     |-> IF ext THEN U8(o.lba.hi \div 256) ELSE 0 ]

\* ata.c:356-377: the command block for a disk operation.
SendCmdDiskCmd(o) ==
    LET ext == NeedsExtended(o)
        \* ata.c:369: lba &= 0xffffff
        hi == IF ext THEN 0 ELSE o.lba.hi
        lo == o.lba.lo
    IN  [ feature       |-> 0,
          sector_count  |-> U8(o.count),
          lba_low       |-> U8(lo),
          lba_mid       |-> U8(lo \div 256),
          lba_high      |-> U8(lo \div 65536),
          device        |-> BitOr(hi % 16, ATA_CB_DH_LBA),
          command       |-> IF ext THEN BitOr(o.command, 4) ELSE o.command,
          sector_count2 |-> IF ext THEN U8(o.count \div 256) ELSE 0,
          lba_low2      |-> IF ext THEN U8(o.lba.hi) ELSE 0,
          lba_mid2      |-> IF ext THEN U8(o.lba.hi \div 256) ELSE 0,
          lba_high2     |-> IF ext THEN U8(o.lba.hi \div 65536) ELSE 0 ]

CallAtaCmdData(driveid, command, lba, count) ==
    /\ Enter("ata_cmd_data", "send_cmd_disk")
    /\ op' = [driveid |-> driveid, command |-> command, lba |-> lba,
              count |-> count]
    /\ UNCHANGED <<devs, env, sector_count, cmd, pkt, emu, xf, waitv, resetv,
                   olddh, status, results, xferv, iolog>>

SendCmdDisk ==
    /\ pc = "send_cmd_disk"
    /\ cmd' = SendCmdDiskCmd(op)
    /\ SendCmdEntry
    /\ UNCHANGED <<devs, env, sector_count, call, op, pkt, emu, xf, resetv, olddh,
                   status, results, xferv>>

\* ata.c:323-324, 330-331, 338-339, 503: the parameters of ata_transfer.
TransferArgs(iswrite, count, blocksize, skipfirst, skiplast) ==
    [iswrite |-> iswrite, count |-> count, blocksize |-> blocksize,
     skipfirst |-> skipfirst, skiplast |-> skiplast]

\* ata.c:386-389
AtaCmdDataRet ==
    /\ pc = "cmd_data_ret"
    /\ olddh' = 0
    /\ IF sres # 0
       THEN Leave(sres) /\ UNCHANGED xf
       ELSE /\ xf' = TransferArgs(op.command = ATA_CMD_WRITE_SECTORS,
                                  op.count, IDE_SECTOR_SIZE, 0, 0)
            /\ pc' = "ata_transfer"
            /\ UNCHANGED ret
    /\ UNCHANGED <<devs, env, sector_count, call, op, cmd, pkt, emu, waitv, resetv,
                   status, sres, xret, xferv, iolog>>


(***************************************************************************)
(* ata_transfer (ata.c:222-318)                                            *)
(***************************************************************************)
\* Bytes that cross the data port when `bytes` bytes are asked for:
\* bytes/4 inl or insl/outsl units in PIO32, bytes/2 word units otherwise
\* (ata.c:226-234, 272-282).
PortBytes(mode, bytes) ==
    IF mode = ATA_MODE_PIO32 THEN 4 * (bytes \div 4) ELSE 2 * (bytes \div 2)

\* ata.c:222-235
InsxDiscard(mode, bytes) == PortBytes(mode, bytes)

SkipsFirst == xf.skipfirst # 0 /\ current = 0
SkipsLast == xf.skiplast # 0 /\ current = xf.count - 1

\* ata.c:261-267
Bsize ==
    xf.blocksize - (IF SkipsFirst THEN xf.skipfirst ELSE 0)
                 - (IF SkipsLast THEN xf.skiplast ELSE 0)

\* ata.c:298
MoreMask == ATA_CB_STAT_BSY + ATA_CB_STAT_DRQ + ATA_CB_STAT_ERR
\* A variant that drops DF for writes too.
DoneMask_IgnoreDf(iswrite) ==
    ATA_CB_STAT_BSY + ATA_CB_STAT_DRQ + ATA_CB_STAT_ERR

\* ata.c:306-309
DoneMask(iswrite) ==
    IF iswrite
    THEN ATA_CB_STAT_BSY + ATA_CB_STAT_DF + ATA_CB_STAT_DRQ + ATA_CB_STAT_ERR
    ELSE ATA_CB_STAT_BSY + ATA_CB_STAT_DRQ + ATA_CB_STAT_ERR

\* ata.c:251-258
AtaTransferEntry ==
    /\ pc = "ata_transfer"
    /\ sector_count' = 0
    /\ current' = 0
    /\ pc' = "xfer_block"
    /\ UNCHANGED <<devs, env, call, args, waitv, resetv, olddh, status, results,
                   nblk, stored, discarded, written, iolog>>

\* ata.c:261-289: one block crosses the data port, then the wait.
XferBlock ==
    /\ pc = "xfer_block"
    /\ nblk < MaxBlocks
    /\ LET mode == devmode[op.driveid]
           skipped == (IF SkipsFirst THEN InsxDiscard(mode, xf.skipfirst) ELSE 0)
                    + (IF SkipsLast THEN InsxDiscard(mode, xf.skiplast) ELSE 0)
           moved == PortBytes(mode, Bsize)
       IN  /\ discarded' = discarded + skipped
           /\ IF xf.iswrite
              THEN written' = written + moved /\ UNCHANGED stored
              ELSE stored' = stored + moved /\ UNCHANGED written
    /\ nblk' = nblk + 1
    /\ await_not_bsy("xfer_status")
    /\ UNCHANGED <<devs, env, sector_count, call, args, resetv, olddh, status,
                   results, current, iolog>>

\* ata_transfer returns v: to ata_transfer_cdemu, or through
\* ata_transfer_disk, ata_transfer_cdrom or ata_cmd_packet to the caller of
\* the operation.
XferReturn(v) ==
    /\ xret' = v
    /\ IF call = "cdrom_read_512"
       THEN pc' = "cdemu_ret" /\ UNCHANGED ret
       ELSE Leave(v)

\* ata.c:290-317: after the wait that follows a block.
XferResult(st, cur) ==
    IF st < 0 THEN st
    ELSE IF cur = xf.count
         THEN IF BitAnd(st, DoneMask(xf.iswrite)) # 0 THEN -7 ELSE 0
         ELSE IF BitAnd(st, MoreMask) # ATA_CB_STAT_DRQ THEN -6 ELSE 1

XferStatus ==
    /\ pc = "xfer_status"
    /\ LET cur == current + 1
           r == XferResult(status, cur)
       IN  /\ IF status < 0
              THEN UNCHANGED <<current, sector_count>>
              ELSE current' = cur /\ sector_count' = cur
           /\ IF r = 1
              THEN pc' = "xfer_block" /\ UNCHANGED <<xret, ret>>
              ELSE XferReturn(r)
           /\ iolog' = IF r = 0
                       THEN Append(iolog, Out("DC", ATA_CB_DC_HD15))
                       ELSE iolog
    /\ UNCHANGED <<devs, env, call, args, waitv, resetv, olddh, status, sres,
                   nblk, stored, discarded, written>>

AtaTransfer == AtaTransferEntry \/ XferBlock \/ XferStatus

(***************************************************************************)
(* ATAPI (ata.c:398-504)                                                   *)
(***************************************************************************)
\* ata.c:405-412.  The fields send_atapi_cmd leaves unset are read by
\* send_cmd only for a command with bit 0x04, which PACKET is not.
AtapiCmd(blocksize) ==
    [NoCmd EXCEPT !.lba_mid = U8(blocksize),
                  !.lba_high = U8(blocksize \div 256),
                  !.command = ATA_CMD_PACKET]

\* (u32)op->lba
U32Lba(lba) == (lba.hi % 256) * P24 + lba.lo

\* ata.c:442-451
CdromPacket(o) ==
    LET l == U32Lba(o.lba)
    IN  << 40, 0, U8(l \div P24), U8(l \div 65536), U8(l \div 256), U8(l),
           0, U8(o.count \div 256), U8(o.count), 0, 0, 0 >>

\* ata.c:414: send_atapi_cmd starts with send_cmd.
SendAtapiCmd(blocksize) ==
    /\ cmd' = AtapiCmd(U16(blocksize))
    /\ SendCmdEntry

\* ata.c:440-454
SendCmdCdrom ==
    /\ pc = "send_cmd_cdrom"
    /\ pkt' = [cmdlen |-> 12, length |-> CDROM_SECTOR_SIZE,
               atacmd |-> CdromPacket(op)]
    /\ SendAtapiCmd(CDROM_SECTOR_SIZE)
    /\ UNCHANGED <<devs, env, sector_count, call, op, emu, xf, resetv, olddh,
                   status, results, xferv>>

\* ata.c:415-421: after send_cmd, the packet goes out on the data port.
AtapiRet ==
    /\ pc = "atapi_ret"
    /\ olddh' = 0
    /\ IF sres # 0
       THEN Leave(sres) /\ UNCHANGED <<waitv, iolog>>
       ELSE /\ iolog' = Append(iolog, Out("PKT", pkt.cmdlen \div 2))
            /\ await_not_bsy("atapi_status")
            /\ UNCHANGED ret
    /\ UNCHANGED <<devs, env, sector_count, call, args, resetv, status, sres, xret,
                   xferv>>

\* ata.c:422-435
SendAtapiResult(st) ==
    IF st < 0 THEN st
    ELSE IF BitAnd(st, ATA_CB_STAT_ERR) # 0 THEN -2
    ELSE IF BitAnd(st, ATA_CB_STAT_DRQ) = 0 THEN -3
    ELSE 0

\* ata.c:465, 491 and 338, 503: the transfer each caller asks for.
AtapiTransfer ==
    IF call = "cdrom_read"
    THEN TransferArgs(FALSE, op.count, CDROM_SECTOR_SIZE, 0, 0)
    ELSE IF call = "cdrom_read_512"
    THEN TransferArgs(FALSE, op.count, CDROM_SECTOR_SIZE,
                      emu.before * 512, emu.after * 512)
    ELSE TransferArgs(FALSE, 1, pkt.length, 0, 0)

AtapiStatus ==
    /\ pc = "atapi_status"
    /\ IF SendAtapiResult(status) # 0
       THEN Leave(SendAtapiResult(status)) /\ UNCHANGED xf
       ELSE xf' = AtapiTransfer /\ pc' = "ata_transfer" /\ UNCHANGED ret
    /\ UNCHANGED <<devs, env, sector_count, call, op, cmd, pkt, emu, waitv, resetv,
                   olddh, status, sres, xret, xferv, iolog>>

CallCdromRead(driveid, lba, count) ==
    /\ Enter("cdrom_read", "send_cmd_cdrom")
    /\ op' = [driveid |-> driveid, command |-> ATA_CMD_READ_SECTORS,
              lba |-> lba, count |-> count]
    /\ UNCHANGED <<devs, env, sector_count, cmd, pkt, emu, xf, waitv, resetv,
                   olddh, status, results, xferv, iolog>>

\* A variant that takes vlba + vcount for the last block.
Cdrom512Map_OffByOne(vlba, vcount) ==
    LET lba == vlba \div 4
        v == vlba + vcount
        elba == v \div 4
    IN  [vlba |-> vlba, vcount |-> vcount, lba |-> lba, elba |-> elba,
         before |-> vlba % 4, after |-> 3 - (v % 4)]

\* ata.c:473-480 in u32 arithmetic: velba = vlba + vcount - 1 wraps to
\* 2^32 - 1 when vlba + vcount is 0; op->count is a u16.
Cdrom512Map(vlba, vcount) ==
    LET lba == vlba \div 4
        v == vlba + vcount - 1
        elba == IF v < 0 THEN 1073741823 ELSE v \div 4
        vmod == IF v < 0 THEN 3 ELSE v % 4
    IN  [vlba |-> vlba, vcount |-> vcount, lba |-> lba, elba |-> elba,
         before |-> vlba % 4, after |-> 3 - vmod]

\* ata.c:478
Cdrom512Count(e) == U16(e.elba - e.lba + 1)

CallCdromRead512(driveid, lba, count) ==
    /\ Enter("cdrom_read_512", "cdrom_read_512")
    /\ op' = [driveid |-> driveid, command |-> ATA_CMD_READ_SECTORS,
              lba |-> lba, count |-> count]
    /\ UNCHANGED <<devs, env, sector_count, cmd, pkt, emu, xf, waitv, resetv,
                   olddh, status, results, xferv, iolog>>

\* ata.c:473-487
CdromRead512 ==
    /\ pc = "cdrom_read_512"
    /\ LET e == Cdrom512Map(U32Lba(op.lba), op.count)
       IN  /\ emu' = e
           /\ op' = [op EXCEPT !.lba = Lba(e.lba \div P24, e.lba % P24),
                               !.count = Cdrom512Count(e)]
    /\ pc' = "send_cmd_cdrom"
    /\ UNCHANGED <<devs, env, sector_count, call, cmd, pkt, xf, waitv, resetv,
                   olddh, status, results, xferv, iolog>>

\* ata.c:337
CdemuVcount == op.count * 4 - emu.before - emu.after

\* ata.c:340-345: ata_transfer_cdemu after ata_transfer.
CdemuRet ==
    /\ pc = "cdemu_ret"
    /\ IF xret # 0
       THEN sector_count' = 0 /\ Leave(xret)
       ELSE sector_count' = CdemuVcount /\ Leave(0)
    /\ UNCHANGED <<devs, env, call, args, waitv, resetv, olddh, status, sres,
                   xret, xferv, iolog>>

CallAtaCmdPacket(driveid, cmdlen, length) ==
    /\ Enter("ata_cmd_packet", "ata_cmd_packet")
    /\ op' = [NoOp EXCEPT !.driveid = driveid]
    /\ pkt' = [cmdlen |-> cmdlen, length |-> length, atacmd |-> <<>>]
    /\ UNCHANGED <<devs, env, sector_count, cmd, emu, xf, waitv, resetv, olddh,
                   status, results, xferv, iolog>>

\* ata.c:499
AtaCmdPacket ==
    /\ pc = "ata_cmd_packet"
    /\ SendAtapiCmd(pkt.length)
    /\ UNCHANGED <<devs, env, sector_count, call, op, pkt, emu, xf, resetv, olddh,
                   status, results, xferv>>

Atapi ==
    \/ SendCmdCdrom \/ AtapiRet \/ AtapiStatus \/ CdromRead512 \/ CdemuRet
    \/ AtaCmdPacket

(***************************************************************************)
(* The driver in use: after hard_drive_setup, the caller runs one          *)
(* operation after the other.                                              *)
(***************************************************************************)
Commands == {ATA_CMD_READ_SECTORS, ATA_CMD_WRITE_SECTORS,
             ATA_CMD_IDENTIFY_DEVICE, ATA_CMD_IDENTIFY_DEVICE_PACKET}
\* lba 1 and 2^28 - 1
DiskLbas == {Lba(0, 1), Lba(15, P24 - 1)}
CdromLbas == {Lba(0, 0), Lba(0, 5)}
EmuLbas == {Lba(0, 0), Lba(0, 5)}
EmuCounts == {0, 1, 10}
PacketLengths == {8, 18, CDROM_SECTOR_SIZE}

Call ==
    \/ \E d \in Drives : CallAtaReset(d)
    \/ \E d \in Drives, c \in Commands, l \in DiskLbas, n \in 0..MaxCount :
          CallAtaCmdData(d, c, l, n)
    \/ \E d \in Drives, l \in CdromLbas, n \in 0..MaxCount :
          CallCdromRead(d, l, n)
    \/ \E d \in Drives, l \in EmuLbas, n \in EmuCounts :
          CallCdromRead512(d, l, n)
    \/ \E d \in Drives, n \in PacketLengths : CallAtaCmdPacket(d, 12, n)

Next ==
    \/ Call \/ Return \/ AwaitIde \/ AtaReset
    \/ SendCmdDisk \/ SendCmd \/ AtaCmdDataRet \/ AtaTransfer \/ Atapi

Spec == Init /\ [][Next]_vars

(***************************************************************************)
(* hard_drive_setup (ata.c:858-871): ata_init (ata.c:802-856), then        *)
(* ata_detect (ata.c:742-800) with init_drive_atapi (ata.c:650-686) and    *)
(* init_drive_ata (ata.c:688-740).  det.seen[d] records what the scan did  *)
(* to unit d.                                                              *)
(***************************************************************************)
\* ata.c:817-855: the channel tables the PCI scan can leave: no IDE
\* controller; one controller with both channels on the legacy ports; one
\* whose secondary channel is in native mode with no address assigned
\* (BAR 2 reads 0); that one followed by a second, legacy, controller.
PciChannels ==
    { [c \in Channels |-> NoChannel],
      LegacyPorts,
      [LegacyPorts EXCEPT ![1] = NoChannel],
      [c \in Channels |->
          IF c = 1 THEN NoChannel ELSE LegacyPorts[c % 2]] }

\* What the probe reads back from the sector count and sector number
\* registers (ata.c:765-766).
Echoes == { <<85, 170>>, <<255, 255>>, <<85, 0>> }

\* ata.c:756-762
ProbeWrites(slave) ==
    << Out("DH", IF slave = 1 THEN ATA_CB_DH_DEV1 ELSE ATA_CB_DH_DEV0),
       Out("SC", 85), Out("SN", 170), Out("SC", 170), Out("SN", 85),
       Out("SC", 85), Out("SN", 170) >>

\* The status ata_detect reads after a failed ATAPI identification.
DetectStatuses == {0, 80, 128}

\* IDENTIFY word 48.
Word48s == {0, 1}

\* What a disk identifies with: word 48, the geometry and the sector
\* count: a disk of 1024/16/63 and one of 16383/16/63.
IdentifyDisks ==
    { [w48 |-> 0,
       geom |-> [NoGeom EXCEPT !.pchs = Chs(1024, 16, 63),
                               !.sectors = 1032192]],
      [w48 |-> 1,
       geom |-> [NoGeom EXCEPT !.pchs = Chs(16383, 16, 63),
                               !.sectors = 16514064]] }

Seen(field, v) == [det EXCEPT !.seen[det.driveid][field] = v]

\* A variant that looks at the sector count register only.
Echoed_ScOnly(e) == e[1] = 85

\* ata.c:768: the registers hold what was written last.
Echoed(e) == e = <<85, 170>>

\* A variant that goes on whatever the wait returned.
RdyPassed_Always(st) == TRUE

\* ata.c:792: the wait for RDY did not time out.
RdyPassed(st) == st >= 0

\* The record of the scan covers the channel being scanned: it is started
\* afresh with the master of the next channel.
SeenEcho(v) ==
    [det EXCEPT !.seen =
        [d \in Devices |->
            IF d = det.driveid THEN [NoSeen EXCEPT !.echo = v]
            ELSE IF SlaveOf(det.driveid) = 1 THEN @[d]
            ELSE NoSeen]]

\* A variant that leaves the types as they were.
ClearTypes_Kept(types) == types

\* ata.c:805: the memset, for the types of the devices.
ClearTypes(types) == [d \in Devices |-> ATA_TYPE_NONE]

\* ata.c:747: the loop goes on with the next drive.
Continue(d) ==
    [d EXCEPT !.driveid = @ + 1]

\* ata.c:802-812, 817-855: the tables are cleared, the id maps filled with
\* "no device", the channels taken from the PCI scan.
AtaInitWith(channels) ==
    /\ pc = "hard_drive_setup"
    /\ devtype' = ClearTypes(devtype)
    /\ devmode' = [d \in Devices |-> 0]
    /\ blksize' = [d \in Devices |-> 0]
    /\ geom' = [d \in Devices |-> NoGeom]
    /\ idmap' = NoIdmap
    /\ cdcount' = 0
    /\ iobase' = channels
    /\ det' = [NoDet EXCEPT !.phase = "scan"]
    /\ pc' = "ata_detect"
    /\ UNCHANGED <<hdcount, fdpt, cfg, other, sector_count, call, args, waitv,
                   resetv, olddh, status, results, xferv, iolog>>

AtaInit == \E channels \in PciChannels : AtaInitWith(channels)

\* A variant that resets every unit that answers.
ResetSkipped_Never(d, last) == FALSE

\* ata.c:772: a slave whose master was the last unit reset is not reset.
ResetSkipped(d, last) == SlaveOf(d) = 1 /\ d = last + 1

\* ata.c:747-777: the head of the loop, the probe of the unit, and the
\* reset of the channel.
DetectProbe ==
    /\ pc = "ata_detect"
    /\ LET d == det.driveid
       IN  IF d >= CONFIG_MAX_ATA_DEVICES
              \/ iobase[ChannelOf(IF d \in Devices THEN d ELSE 0)].iobase1 = 0
           THEN /\ pc' = "detect_done"
                /\ UNCHANGED <<det, call, op, iolog>>
           ELSE \E e \in Echoes :
                /\ iolog' = ProbeWrites(SlaveOf(d))
                /\ IF ~Echoed(e)
                   THEN /\ det' = Continue(SeenEcho(e))
                        /\ UNCHANGED <<pc, call, op>>
                   ELSE IF ResetSkipped(d, det.last_reset_driveid)
                   THEN /\ det' = SeenEcho(e)
                        /\ pc' = "init_drive_atapi"
                        /\ UNCHANGED <<call, op>>
                   ELSE /\ det' = [SeenEcho(e) EXCEPT
                                     !.seen[d].reset = TRUE]
                        /\ call' = "ata_reset"
                        /\ pc' = "ata_reset"
                        /\ op' = [NoOp EXCEPT !.driveid = d]
    /\ UNCHANGED <<devs, other, sector_count, cmd, pkt, emu, xf, waitv,
                   resetv, olddh, status, results, xferv>>

\* ata.c:775-776: ata_reset has returned.
DetectReset ==
    /\ pc = "done" /\ call = "ata_reset" /\ det.phase = "scan"
    /\ det' = [det EXCEPT !.last_reset_driveid = det.driveid]
    /\ call' = "none"
    /\ pc' = "init_drive_atapi"
    /\ Unwind
    /\ UNCHANGED <<devs, other, sector_count>>

\* ata.c:650-662: IDENTIFY PACKET DEVICE through ata_cmd_data.
InitDriveAtapi ==
    /\ pc = "init_drive_atapi"
    /\ op' = [driveid |-> det.driveid,
              command |-> ATA_CMD_IDENTIFY_DEVICE_PACKET,
              lba |-> Lba(0, 1), count |-> 1]
    /\ det' = Seen("atapi", "sent")
    /\ call' = "ata_cmd_data"
    /\ pc' = "send_cmd_disk"
    /\ UNCHANGED <<devs, other, sector_count, cmd, pkt, emu, xf, waitv,
                   resetv, olddh, status, results, xferv, iolog>>

\* ata.c:662-685, 780-783: ata_cmd_data has returned to init_drive_atapi.
InitDriveAtapiRet ==
    /\ pc = "done" /\ call = "ata_cmd_data" /\ det.phase = "scan"
    /\ op.command = ATA_CMD_IDENTIFY_DEVICE_PACKET
    /\ LET d == det.driveid
       IN  IF ret # 0
           THEN /\ det' = Seen("atapi", "failed")
                /\ pc' = "detect_status"
                /\ UNCHANGED <<devtype, devmode, blksize, idmap, cdcount>>
           ELSE \E w48 \in Word48s :
                /\ devmode' = [devmode EXCEPT ![d] =
                      IF w48 # 0 THEN ATA_MODE_PIO32 ELSE ATA_MODE_PIO16]
                /\ devtype' = [devtype EXCEPT ![d] = ATA_TYPE_ATAPI]
                /\ blksize' = [blksize EXCEPT ![d] = CDROM_SECTOR_SIZE]
                /\ idmap' = [idmap EXCEPT ![1][cdcount] = d]
                /\ cdcount' = cdcount + 1
                /\ det' = Continue(Seen("atapi", "passed"))
                /\ pc' = "ata_detect"
    /\ call' = "none"
    /\ Unwind
    /\ UNCHANGED <<geom, iobase, hdcount, fdpt, cfg, other, sector_count>>

\* ata.c:785-793: the status is read, and when it is not 0 RDY awaited.
DetectStatus ==
    /\ pc = "detect_status"
    /\ \E st \in DetectStatuses :
          IF st = 0
          THEN /\ det' = Continue(Seen("st", "zero"))
               /\ pc' = "ata_detect"
               /\ UNCHANGED waitv
          ELSE /\ det' = Seen("st", "set")
               /\ await_rdy("detect_rdy")
    /\ UNCHANGED <<devs, other, sector_count, call, args, resetv, olddh,
                   status, results, xferv, iolog>>

\* ata.c:791-796, 688-699: after the wait for RDY: IDENTIFY DEVICE through
\* ata_cmd_data.
DetectRdy ==
    /\ pc = "detect_rdy"
    /\ IF ~RdyPassed(status)
       THEN /\ det' = Continue(Seen("rdy", "timeout"))
            /\ pc' = "ata_detect"
            /\ UNCHANGED <<call, op>>
       ELSE /\ det' = [Seen("rdy", IF status < 0 THEN "timeout" ELSE "ready")
                         EXCEPT
                         !.seen[det.driveid].ata = "sent"]
            /\ op' = [driveid |-> det.driveid,
                      command |-> ATA_CMD_IDENTIFY_DEVICE,
                      lba |-> Lba(0, 1), count |-> 1]
            /\ call' = "ata_cmd_data"
            /\ pc' = "send_cmd_disk"
    /\ UNCHANGED <<devs, other, sector_count, cmd, pkt, emu, xf, waitv,
                   resetv, olddh, status, results, xferv, iolog>>

\* ata.c:699-719: ata_cmd_data has returned to init_drive_ata.
InitDriveAtaRet ==
    /\ pc = "done" /\ call = "ata_cmd_data" /\ det.phase = "scan"
    /\ op.command = ATA_CMD_IDENTIFY_DEVICE
    /\ LET d == det.driveid
       IN  IF ret # 0
           THEN /\ det' = Continue(Seen("ata", "failed"))
                /\ pc' = "ata_detect"
                /\ UNCHANGED <<devtype, devmode, blksize, geom>>
           ELSE \E id \in IdentifyDisks :
                /\ devmode' = [devmode EXCEPT ![d] =
                      IF id.w48 # 0 THEN ATA_MODE_PIO32 ELSE ATA_MODE_PIO16]
                /\ devtype' = [devtype EXCEPT ![d] = ATA_TYPE_ATA]
                /\ blksize' = [blksize EXCEPT ![d] = IDE_SECTOR_SIZE]
                /\ geom' = [geom EXCEPT ![d] = id.geom]
                /\ det' = Seen("ata", "passed")
                /\ pc' = "setup_translation"
    /\ call' = "none"
    /\ Unwind
    /\ UNCHANGED <<iobase, idmap, cdcount, hdcount, fdpt, cfg, other,
                   sector_count>>

\* ata.c:535-607 for the drive of the scan: the translation is chosen and
\* the logical geometry stored.
SetupTranslation ==
    /\ pc = "setup_translation"
    /\ \E t \in get_translation(cfg.coreboot, geom[det.driveid].pchs) :
          geom' = [geom EXCEPT
                     ![det.driveid].translation = t,
                     ![det.driveid].lchs =
                         setup_translation(t, geom[det.driveid].pchs,
                                           geom[det.driveid].sectors)]
    /\ pc' = "translated"
    /\ UNCHANGED <<devtype, devmode, blksize, iobase, idmap, cdcount, hdcount,
                   fdpt, cfg, env, sector_count, call, args, waitv, resetv,
                   olddh, status, results, xferv, iolog>>

\* ata.c:724-739, 796: the disk is reported and registered, and the loop
\* goes on.
InitDriveAtaDone ==
    /\ pc = "translated" /\ det.phase = "scan"
    /\ det' = Continue(det)
    /\ pc' = "ata_detect"
    /\ UNCHANGED <<devs, other, sector_count, call, args, waitv, resetv,
                   olddh, status, results, xferv, iolog>>

\* ata.c:799, 866-870: the scan is over.
DetectDone ==
    /\ pc = "detect_done"
    /\ det' = NoDet
    /\ pc' = "idle"
    /\ iolog' = <<>>
    /\ UNCHANGED <<devs, other, sector_count, call, args, waitv, resetv,
                   olddh, status, results, xferv>>

AtaDetect ==
    \/ DetectProbe \/ DetectReset \/ InitDriveAtapi \/ InitDriveAtapiRet
    \/ DetectStatus \/ DetectRdy \/ InitDriveAtaRet \/ SetupTranslation
    \/ InitDriveAtaDone \/ DetectDone

\* hard_drive_setup is entered: the tables hold zeroes, or ones in every
\* bit.
InitBoot ==
    /\ \/ /\ devtype = [d \in Devices |-> 0]
          /\ devmode = [d \in Devices |-> 0]
          /\ blksize = [d \in Devices |-> 0]
          /\ geom = [d \in Devices |-> NoGeom]
          /\ idmap = [t \in 0..1 |-> [n \in Devices |-> 0]]
          /\ cdcount = 0
          /\ iobase = [c \in Channels |-> NoChannel]
       \/ /\ devtype = [d \in Devices |-> 255]
          /\ devmode = [d \in Devices |-> 255]
          /\ blksize = [d \in Devices |-> 65535]
          /\ geom = [d \in Devices |-> DiskGeom]
          /\ idmap = [t \in 0..1 |-> [n \in Devices |-> 255]]
          /\ cdcount = 255
          /\ iobase = [c \in Channels |->
                         [iobase1 |-> 65535, iobase2 |-> 65535]]
    /\ cfg = [coreboot |-> TRUE]
    /\ hdcount = 0
    /\ fdpt = [n \in 0..1 |-> NoFdpt]
    /\ det = [NoDet EXCEPT !.phase = "boot"]
    /\ other = NoOther
    /\ sector_count = 0
    /\ pc = "hard_drive_setup" /\ call = "none"
    /\ Cleared

\* ata_reset never waits for RDY here: the unit it is called for has no
\* type yet.
NextDetect ==
    \/ AtaInit \/ AtaDetect
    \/ AwaitIde
    \/ AtaResetPulse \/ AtaResetSelect \/ AtaResetSlave \/ AtaResetType
    \/ AtaResetDone
    \/ SendCmdDisk \/ SendCmd \/ AtaCmdDataRet \/ AtaTransfer

SpecDetect == InitBoot /\ [][NextDetect]_vars


(***************************************************************************)
(* map_drive (ata.c:919-930) and fill_fdpt (ata.c:879-916).                *)
(***************************************************************************)
\* The sum of the bytes of a table but its last: its fields are bytes, but
\* the cylinders, the precompensation, the physical cylinders and the
\* landing zone, which are words.
Word(x) == U8(x) + U8(x \div 256)
FdptSum(t) ==
    U8(Word(t.cylinders) + t.heads + t.a0h_signature + t.phys_sectors
       + Word(t.precompensation) + t.drive_control_byte
       + Word(t.phys_cylinders) + t.phys_heads + Word(t.landing_zone)
       + t.sectors)

\* ata.c:891-897: the standard part of the table.
FdptStandard(t, g) ==
    [t EXCEPT !.precompensation = 65535,
              !.drive_control_byte =
                  BitOr(192, IF g.pchs.heads > 8 THEN 8 ELSE 0),
              !.landing_zone = g.pchs.cylinders,
              !.cylinders = g.lchs.cylinders,
              !.heads = U8(g.lchs.heads),
              !.sectors = U8(g.lchs.spt)]

\* ata.c:906-915: the translated part and the checksum.
FdptTranslated(t, g) ==
    LET x == [t EXCEPT !.phys_cylinders = g.pchs.cylinders,
                       !.phys_heads = U8(g.pchs.heads),
                       !.phys_sectors = U8(g.pchs.spt),
                       !.a0h_signature = 160]
    IN  [x EXCEPT !.checksum = U8(256 - FdptSum(x))]

\* ata.c:879-916: the tables after fill_fdpt(driveid).
fill_fdpt(driveid) ==
    IF driveid > 1
    THEN fdpt
    ELSE LET g == geom[driveid]
             t == FdptStandard(fdpt[driveid], g)
         IN  [fdpt EXCEPT ![driveid] =
                 IF g.lchs = g.pchs THEN t ELSE FdptTranslated(t, g)]

\* ata.c:919-930: map_drive(driveid), for a disk registered by
\* init_drive_ata (ata.c:737) and not mapped yet.
MapDrive(driveid) ==
    /\ pc = "idle"
    /\ devtype[driveid] = ATA_TYPE_ATA
    /\ \A n \in Devices : idmap[0][n] # driveid
    /\ idmap' = [idmap EXCEPT ![0][hdcount] = driveid]
    /\ hdcount' = hdcount + 1
    /\ fdpt' = fill_fdpt(hdcount)
    /\ UNCHANGED <<devtype, devmode, blksize, geom, iobase, cdcount, cfg,
                   env, sector_count, pc, call, args, waitv, resetv, olddh,
                   status, results, xferv, iolog>>

(***************************************************************************)
(* hard_drive_setup on a controller with one usable channel, and then      *)
(* operations on its two drives and the mapping of its disks.              *)
(***************************************************************************)
AtaInitPrimary == AtaInitWith([LegacyPorts EXCEPT ![1] = NoChannel])

CallLife ==
    \E d \in Drives :
       \/ CallAtaReset(d)
       \/ CallAtaCmdData(d, ATA_CMD_READ_SECTORS, Lba(0, 1), 1)
       \/ CallCdromRead(d, Lba(0, 0), 1)
       \/ CallCdromRead512(d, Lba(0, 5), 1)
       \/ CallAtaCmdPacket(d, 12, 8)
       \/ MapDrive(d)

NextLife ==
    \/ AtaInitPrimary \/ AtaDetect
    \/ CallLife \/ Return \/ AwaitIde \/ AtaReset
    \/ SendCmdDisk \/ SendCmd \/ AtaCmdDataRet \/ AtaTransfer \/ Atapi

SpecLife == InitBoot /\ [][NextLife]_vars

(***************************************************************************)
(* send_cmd_disk on its own: the operation descriptor is drawn from lbas   *)
(* up to 2^48 - 1 and counts up to 2^16 - 1, and the command goes out      *)
(* through send_cmd.                                                       *)
(***************************************************************************)
\* Bits 24-47 of the lba: 0, 1, 15, 16 (2^28), 0x123456, 0xffffff.
HiLimbs == {0, 1, 15, 16, 1193046, P24 - 1}
\* Bits 0-23 of the lba: 0, 0x789abc, 0xffff00, 0xffffff.
LoLimbs == {0, 7903932, P24 - 256, P24 - 1}
\* Block counts: 1, 255, 256, 0x1234, 0xffff.
WideCounts == {1, 255, 256, 4660, 65535}

InitEnc ==
    /\ DeviceTable
    /\ sector_count = 0
    /\ pc = "send_cmd_disk" /\ call = "send_cmd_disk"
    /\ \E d \in Drives, c \in {ATA_CMD_READ_SECTORS, ATA_CMD_WRITE_SECTORS},
          hi \in HiLimbs, lo \in LoLimbs, n \in WideCounts :
          op = [driveid |-> d, command |-> c, lba |-> Lba(hi, lo), count |-> n]
    /\ cmd = NoCmd /\ pkt = NoPkt /\ emu = NoEmu /\ xf = NoXf
    /\ aw = NoAw /\ left = 0 /\ retpc = "none" /\ rleft = 0 /\ retries = 0
    /\ olddh = 0 /\ status = 0 /\ sres = 0 /\ xret = 0 /\ ret = 0
    /\ current = 0 /\ nblk = 0 /\ stored = 0 /\ discarded = 0 /\ written = 0
    /\ iolog = <<>>

NextEnc == SendCmdDisk \/ SendCmd \/ AwaitIde

SpecEnc == InitEnc /\ [][NextEnc]_vars

(***************************************************************************)
(* ata_transfer on its own: the parameters are drawn, the device has       *)
(* raised DRQ for the first block.                                         *)
(***************************************************************************)
SkipFirsts == {0, 100, 512}
SkipLasts == {0, 50, 512}

InitTransfer ==
    /\ DeviceTable
    /\ sector_count \in {0, 1}
    /\ pc = "ata_transfer" /\ call = "ata_transfer"
    /\ \E d \in Drives : op = [NoOp EXCEPT !.driveid = d]
    /\ \E w \in BOOLEAN, n \in 1..MaxCount,
          bs \in {IDE_SECTOR_SIZE, CDROM_SECTOR_SIZE},
          sf \in SkipFirsts, sl \in SkipLasts :
          /\ sf + sl < bs
          /\ xf = TransferArgs(w, n, bs, sf, sl)
    /\ cmd = NoCmd /\ pkt = NoPkt /\ emu = NoEmu
    /\ aw = NoAw /\ left = 0 /\ retpc = "none" /\ rleft = 0 /\ retries = 0
    /\ olddh = 0 /\ status = 0 /\ sres = 0 /\ xret = 0 /\ ret = 0
    /\ current = 0 /\ nblk = 0 /\ stored = 0 /\ discarded = 0 /\ written = 0
    /\ iolog = <<>>

NextTransfer == AtaTransfer \/ AwaitIde

SpecTransfer == InitTransfer /\ [][NextTransfer]_vars

(***************************************************************************)
(* What the log of an operation shows.                                     *)
(***************************************************************************)
DataOps == {"ata_cmd_data", "cdrom_read", "cdrom_read_512", "ata_cmd_packet"}

WritesTo(reg) == SelectSeq(iolog, LAMBDA e : e[1] = reg)
Written(reg) == Len(WritesTo(reg)) > 0
Nien(v) == (v \div 2) % 2 = 1
Srst(v) == (v \div 4) % 2 = 1
Returned == pc = "done"

Bit(x, k) == (x \div (2 ^ k)) % 2

(***************************************************************************)
(* C1: in ata_cmd_data, cdrom_read, cdrom_read_512 and ata_cmd_packet a    *)
(* write of the device-control register with nIEN set precedes the command *)
(* code, and when the operation has returned, with success or with any     *)
(* error, the last value written to the device-control register has nIEN   *)
(* clear.                                                                  *)
(***************************************************************************)
C1_InterruptsRearmedOnReturn ==
    call \in DataOps =>
      /\ \A i \in 1..Len(iolog) :
           iolog[i][1] = "CMD" =>
             \E j \in 1..(i - 1) : iolog[j][1] = "DC" /\ Nien(iolog[j][2])
      /\ Returned => /\ Written("DC")
                     /\ ~Nien(Last(WritesTo("DC"))[2])

(***************************************************************************)
(* C2: ata_reset writes SRST set and then SRST clear, both with nIEN set,  *)
(* to the device-control register; on every exit its last register write  *)
(* is the device-control register with nIEN clear; it waits for RDY only   *)
(* if the type recorded for driveid is ATA.                                *)
(***************************************************************************)
C2_ResetReenablesInterrupts ==
    (call = "ata_reset" /\ pc # "ata_reset") =>
      /\ Len(iolog) >= 2
      /\ iolog[1][1] = "DC" /\ Srst(iolog[1][2]) /\ Nien(iolog[1][2])
      /\ iolog[2][1] = "DC" /\ ~Srst(iolog[2][2]) /\ Nien(iolog[2][2])
      /\ Returned =>
           LET outs == SelectSeq(iolog, LAMBDA e : e[1] # "await")
           IN  Last(outs)[1] = "DC" /\ ~Nien(Last(outs)[2])
      /\ (pc = "reset_rdy" \/ (pc = "await_ide" /\ aw.mask = ATA_CB_STAT_RDY))
           => devtype[op.driveid] = ATA_TYPE_ATA

\* ata_reset of an ATA slave has returned through the time-out of the
\* selection loop: every wait returned a status, the selection was retried,
\* and RDY was not waited for.
C2_Witness ==
    /\ call = "ata_reset" /\ Returned
    /\ op.driveid = 1 /\ devtype[1] = ATA_TYPE_ATA
    /\ status >= 0 /\ retries >= 1
    /\ Len(WritesTo("await")) = retries + 2

(***************************************************************************)
(* C3: the order of send_cmd's register writes: interrupt disable first;   *)
(* after a successful not-busy wait the drive/head select; a second wait   *)
(* if and only if bit 4 of the value written differs from bit 4 of the     *)
(* value read before; then, for a command with the extended bit, the       *)
(* extended bytes before the standard bytes; the command code last, and    *)
(* nothing written after a wait that timed out.                            *)
(***************************************************************************)
InSendCmd ==
    \/ pc \in {"sc_select", "sc_settle", "sc_status", "cmd_data_ret",
               "atapi_ret"}
    \/ pc = "await_ide" /\ retpc \in {"sc_select", "sc_settle", "sc_status"}

C3_CommandBlock ==
    (IF Bit(cmd.command, 2) = 1
     THEN << <<"FR", 0>>, <<"SC", cmd.sector_count2>>, <<"SN", cmd.lba_low2>>,
             <<"CL", cmd.lba_mid2>>, <<"CH", cmd.lba_high2>> >>
     ELSE << >>)
    \o << <<"FR", cmd.feature>>, <<"SC", cmd.sector_count>>,
          <<"SN", cmd.lba_low>>, <<"CL", cmd.lba_mid>>,
          <<"CH", cmd.lba_high>>, <<"CMD", cmd.command>> >>

C3_SendCmdOrder ==
    InSendCmd =>
      LET n == Len(iolog)
          changed == Bit(olddh, 4) # Bit(iolog[3][2], 4)
          k == IF changed THEN 4 ELSE 3
          TimedOut(i) == iolog[i] = <<"await", -1>>
          blk == C3_CommandBlock
      IN  /\ n >= 1
          /\ iolog[1][1] = "DC" /\ Nien(iolog[1][2])
          /\ n >= 2 => iolog[2][1] = "await" /\ (TimedOut(2) => n = 2)
          /\ n >= 3 => /\ iolog[3][1] = "DH"
                       /\ Bit(iolog[3][2], 4) = op.driveid % 2
          /\ (n >= 4 /\ changed) =>
                iolog[4][1] = "await" /\ (TimedOut(4) => n = 4)
          /\ (n >= 3 /\ n > k) =>
                \/ iolog = SubSeq(iolog, 1, k) \o blk
                \/ /\ iolog = SubSeq(iolog, 1, k) \o blk \o <<Last(iolog)>>
                   /\ Last(iolog)[1] = "await"

\* send_cmd has returned 0 for an extended command to the slave, after the
\* wait that follows a change of device.
C3_Witness ==
    /\ pc = "cmd_data_ret" /\ sres = 0
    /\ op.driveid = 1 /\ olddh = ATA_CB_DH_DEV0
    /\ Bit(cmd.command, 2) = 1
    /\ Len(iolog) = 16

(***************************************************************************)
(* C4: send_cmd returns 0 exactly when the status read after the command   *)
(* is not busy, has ERR clear and DRQ set; -1 when a wait timed out; -4    *)
(* when ERR is set, also with DRQ missing; -5 when ERR is clear and DRQ is *)
(* not set.  After a non-zero return the caller returns that value and no  *)
(* packet and no block crosses the data port.                              *)
(***************************************************************************)
C4_SendCmdResult ==
    /\ pc \in {"cmd_data_ret", "atapi_ret"} =>
         LET bsy == status >= 0 /\ Bit(status, 7) = 1
             err == status >= 0 /\ Bit(status, 0) = 1
             drq == status >= 0 /\ Bit(status, 3) = 1
         IN  /\ sres \in {0, -1, -4, -5}
             /\ sres = 0 <=> (status >= 0 /\ ~bsy /\ ~err /\ drq)
             /\ sres = 0 => Last(WritesTo("await")) = <<"await", 0>>
                            /\ Written("CMD")
             /\ sres = -1 <=> status < 0
             /\ sres = -4 <=> err
             /\ sres = -5 <=> (status >= 0 /\ ~err /\ ~drq)
    /\ (call \in DataOps /\ sres # 0) =>
         /\ nblk = 0 /\ stored = 0 /\ written = 0 /\ discarded = 0
         /\ ~Written("PKT")
         /\ pc \in {"cmd_data_ret", "atapi_ret", "done"}
         /\ Returned => ret = sres

\* ata_cmd_data has returned -4 for a status with ERR set and DRQ clear.
C4_Witness ==
    /\ call = "ata_cmd_data" /\ Returned
    /\ sres = -4 /\ ret = -4 /\ status = 81

(***************************************************************************)
(* C5: for every operation of ata_cmd_data (read, write, identify) the     *)
(* extended bit is set in the command code, and the extended registers     *)
(* are written by send_cmd, if and only if count >= 256 or lba + count >=  *)
(* 2^28.                                                                   *)
(***************************************************************************)
C5_ExtendedIffLarge ==
    (call = "ata_cmd_data" /\ pc # "send_cmd_disk") =>
      LET large == \/ op.count >= 256
                   \/ op.lba.hi >= 16
                   \/ op.lba.hi * P24 + op.lba.lo + op.count >= P28
      IN  /\ Bit(cmd.command, 2) = 1 <=> large
          /\ Written("CMD") => (Len(WritesTo("SC")) = 2 <=> large)


(***************************************************************************)
(* C6: the registers send_cmd_disk fills give back lba and count.  In the  *)
(* extended form the standard LBA registers hold bits 0-23, the extended   *)
(* ones bits 24-47, the extended sector count the high byte of count, and  *)
(* the low nibble of the device register is 0; in the 28-bit form the      *)
(* standard registers hold bits 0-23 and the low nibble of the device      *)
(* register bits 24-27; the LBA bit is set in both; and these are the      *)
(* values send_cmd writes to the registers.                                *)
(***************************************************************************)
Bytes3(b0, b1, b2) == b0 + 256 * b1 + 65536 * b2

C6_EncodingLossless ==
    (call = "send_cmd_disk" /\ pc # "send_cmd_disk") =>
      LET ext == Bit(cmd.command, 2) = 1
      IN  /\ Bytes3(cmd.lba_low, cmd.lba_mid, cmd.lba_high) = op.lba.lo
          /\ Bit(cmd.device, 6) = 1
          /\ ext => /\ Bytes3(cmd.lba_low2, cmd.lba_mid2, cmd.lba_high2)
                         = op.lba.hi
                    /\ cmd.sector_count + 256 * cmd.sector_count2 = op.count
                    /\ cmd.device % 16 = 0
          /\ ~ext => /\ cmd.device % 16 = op.lba.hi
                     /\ cmd.sector_count = op.count
          /\ Written("CMD") =>
               LET sc == WritesTo("SC")
                   sn == WritesTo("SN")
                   cl == WritesTo("CL")
                   ch == WritesTo("CH")
                   dh == WritesTo("DH")
               IN  /\ Len(sc) = (IF ext THEN 2 ELSE 1)
                   /\ Len(sn) = Len(sc) /\ Len(cl) = Len(sc)
                   /\ Len(ch) = Len(sc) /\ Len(dh) = 1
                   /\ Bytes3(Last(sn)[2], Last(cl)[2], Last(ch)[2])
                        = op.lba.lo
                   /\ Bit(dh[1][2], 6) = 1
                   /\ ext => /\ Bytes3(sn[1][2], cl[1][2], ch[1][2]) = op.lba.hi
                             /\ sc[2][2] + 256 * sc[1][2] = op.count
                             /\ dh[1][2] % 16 = 0
                   /\ ~ext => /\ dh[1][2] % 16 = op.lba.hi
                              /\ sc[1][2] = op.count

\* send_cmd has returned 0 for lba 0x123456789abc and count 0x1234.
C6_Witness ==
    /\ call = "send_cmd_disk" /\ pc = "cmd_data_ret" /\ sres = 0
    /\ op.lba = Lba(1193046, 7903932) /\ op.count = 4660

(***************************************************************************)
(* C7: when ata_cmd_data, cdrom_read or ata_cmd_packet returns, after any  *)
(* earlier operations, the progress counter is the number of blocks this   *)
(* operation completed (0 if it failed before any block, count on          *)
(* success), and during the transfer the counter never exceeds count.      *)
(***************************************************************************)
C7_ProgressCounter ==
    call \in {"ata_cmd_data", "cdrom_read", "ata_cmd_packet"} =>
      /\ Returned => /\ sector_count = current
                     /\ ret = 0 => sector_count = xf.count
      /\ pc \in {"xfer_block", "xfer_status"} => sector_count <= xf.count
      /\ (pc = "await_ide" /\ retpc = "xfer_status") => sector_count <= xf.count

(***************************************************************************)
(* C8: in ata_transfer, after every block but the last the status masked   *)
(* to BSY, DRQ, ERR must be exactly DRQ, or the transfer returns -6 at     *)
(* once; after the last block the status masked to BSY, DF, DRQ, ERR (DF   *)
(* only for a write) must be 0, or it returns -7; a wait that times out    *)
(* after a block returns -1; it returns 0 only if exactly count blocks     *)
(* were exchanged and every check passed.                                  *)
(***************************************************************************)
C8_Busy(st) == Bit(st, 7) = 1
C8_Df(st) == Bit(st, 5) = 1
C8_Drq(st) == Bit(st, 3) = 1
C8_Err(st) == Bit(st, 0) = 1

C8_TransferChecks ==
    /\ (pc = "xfer_block" /\ nblk >= 1) =>
         /\ nblk = current /\ current # xf.count
         /\ status >= 0
         /\ ~C8_Busy(status) /\ C8_Drq(status) /\ ~C8_Err(status)
    /\ (pc \in {"done", "cdemu_ret"} /\ nblk >= 1) =>
         IF status < 0
         THEN xret = -1 /\ nblk = current + 1
         ELSE /\ nblk = current
              /\ IF current = xf.count
                 THEN LET clean == /\ ~C8_Busy(status) /\ ~C8_Drq(status)
                                   /\ ~C8_Err(status)
                                   /\ xf.iswrite => ~C8_Df(status)
                      IN  xret = (IF clean THEN 0 ELSE -7)
                 ELSE /\ xret = -6
                      /\ ~(~C8_Busy(status) /\ C8_Drq(status)
                           /\ ~C8_Err(status))
    /\ (pc \in {"done", "cdemu_ret"} /\ nblk = 0) => xret = 0 /\ current = 0

\* A write of two blocks has returned -7 for a status with DF after the
\* last block.
C8_Witness ==
    /\ call = "ata_cmd_data" /\ Returned
    /\ xf.iswrite /\ xf.count = 2 /\ nblk = 2
    /\ status = 112 /\ xret = -7

(***************************************************************************)
(* C9: ata_transfer of one 2048-byte block with skipfirst = 100 and        *)
(* skiplast = 50, in PIO16 or PIO32 mode, reads and discards 150 bytes,    *)
(* stores 1898 bytes in the buffer, and so takes 2048 bytes from the       *)
(* device.                                                                 *)
(***************************************************************************)
C9_SkipAccounting ==
    ( /\ call = "ata_transfer" /\ nblk = 1
      /\ xf = TransferArgs(FALSE, 1, CDROM_SECTOR_SIZE, 100, 50) ) =>
      /\ discarded = 150
      /\ stored = 1898
      /\ discarded + stored = 2048

(***************************************************************************)
(* C10: cdrom_read_512 with vlba = 5 and vcount = 10 reads lba = 1 to      *)
(* elba = 3, count = 3, with before = 1.  As claimed: after = 2, and on    *)
(* success the progress counter is 3*4 - 1 - 2 = 9.                        *)
(***************************************************************************)
C10_Case ==
    /\ call = "cdrom_read_512" /\ pc # "cdrom_read_512"
    /\ emu.vlba = 5 /\ emu.vcount = 10

C10_EmulatedReadAsClaimed ==
    C10_Case =>
      /\ emu.lba = 1 /\ emu.elba = 3 /\ op.count = 3
      /\ emu.before = 1 /\ emu.after = 2
      /\ (Returned /\ ret = 0) => sector_count = 9

\* C10 as amended: after = 3 - (14 mod 4) = 1, and on success the progress
\* counter is 3*4 - 1 - 1 = 10, the vcount asked for.
C10_EmulatedRead ==
    C10_Case =>
      /\ emu.lba = 1 /\ emu.elba = 3 /\ op.count = 3
      /\ U32Lba(op.lba) = 1
      /\ emu.before = 1 /\ emu.after = 1
      /\ pc \in {"xfer_block", "xfer_status"} =>
           xf = TransferArgs(FALSE, 3, CDROM_SECTOR_SIZE, 512, 512)
      /\ (Returned /\ ret = 0) => sector_count = 10

\* cdrom_read_512 of vlba 5, vcount 10 has returned 0.
C10_Witness ==
    C10_Case /\ Returned /\ ret = 0 /\ nblk = 3

(***************************************************************************)
(* C15: await_ide returns the status just polled, a non-negative value,    *)
(* as soon as a poll sees (status & mask) == flags, also when the deadline *)
(* has passed at that poll; it returns -1 only after a poll that did not   *)
(* match and with the clock at or past the deadline set at entry; it goes  *)
(* on polling only while the clock is before the deadline, so that at most *)
(* one poll is made once the deadline is reached.                          *)
(***************************************************************************)
C15_AfterAwait ==
    pc \in {"reset_notbsy", "reset_slave", "reset_rdy", "sc_select",
            "sc_settle", "sc_status", "xfer_status", "atapi_status"}

C15_Matches(st) == BitAnd(st, aw.mask) = aw.flags

C15_AwaitIde ==
    /\ pc = "await_ide" =>
         /\ left > 0 /\ left <= TimeoutTicks
         /\ aw.late = 0
         /\ aw.status >= 0 => ~C15_Matches(aw.status)
    /\ C15_AfterAwait =>
         /\ aw.status >= 0
         /\ status >= 0 => status = aw.status /\ C15_Matches(status)
         /\ status < 0 => status = -1 /\ ~C15_Matches(aw.status) /\ left = 0
         /\ C15_Matches(aw.status) => status = aw.status
         /\ aw.late <= 1
         /\ aw.late = 1 => left = 0
         /\ status >= 0 => (aw.late = 1 <=> left = 0)

\* The wait after the command of send_cmd has returned a status polled with
\* the deadline already reached.
C15_Witness ==
    /\ pc = "sc_status" /\ status >= 0
    /\ left = 0 /\ aw.late = 1 /\ aw.status = status

(***************************************************************************)
(* setup_translation on its own: init_drive_ata has stored the physical    *)
(* geometry and the sector count of drive 0 (ata.c:706-719) and calls      *)
(* setup_translation (ata.c:722).                                          *)
(***************************************************************************)
\* IDENTIFY words 1, 3 and 6, and the sector count.
GeomCylinders == {1, 1024, 1025, 2000, 2048, 8192, 16383, 61440, 65535}
GeomHeads == {1, 15, 16, 17, 64, 128, 255, 65535}
GeomSpts == {17, 63, 64, 255}
\* None, below 16 heads of 1024 cylinders, 100*1024*63, 63*255*1024,
\* 16383*16*63.
GeomSectors == {0, 1000000, 6451200, 16450560, 16514064}

InitGeom ==
    /\ devtype = [d \in Devices |-> IF d = 0 THEN ATA_TYPE_ATA
                                    ELSE ATA_TYPE_NONE]
    /\ devmode = [d \in Devices |-> ATA_MODE_PIO16]
    /\ blksize = [d \in Devices |-> IF d = 0 THEN IDE_SECTOR_SIZE ELSE 0]
    /\ \E c \in GeomCylinders, h \in GeomHeads, s \in GeomSpts,
          n \in GeomSectors :
          geom = [d \in Devices |->
                    IF d = 0
                    THEN [NoGeom EXCEPT !.pchs = Chs(c, h, s), !.sectors = n]
                    ELSE NoGeom]
    /\ idmap = NoIdmap /\ cdcount = 0
    /\ iobase = LegacyPorts
    /\ cfg \in [coreboot : BOOLEAN]
    /\ hdcount = 0
    /\ fdpt = [n \in 0..1 |-> NoFdpt]
    /\ det = [NoDet EXCEPT !.phase = "scan"]
    /\ other = NoOther
    /\ sector_count = 1
    /\ pc = "setup_translation" /\ call = "none"
    /\ Cleared

NextGeom == SetupTranslation

SpecGeom == InitGeom /\ [][NextGeom]_vars

\* The drive setup_translation ran for, once it has returned.
Translated == geom[det.driveid]

(***************************************************************************)
(* C12: on the heuristic path (no CMOS hint) get_translation chooses no    *)
(* translation when cylinders <= 1024, heads <= 16 and spt <= 63, and the  *)
(* logical geometry then equals the physical; otherwise large when         *)
(* cylinders * heads <= 131072 and LBA-assist beyond; 1024/16/63 stays     *)
(* untranslated, and 2000/16/63 is translated as large to 1000/32/63.      *)
(***************************************************************************)
C12_Large(pchs) == pchs.cylinders <= 131072 \div pchs.heads

C12_HeuristicTranslation ==
    (pc = "translated" /\ cfg.coreboot) =>
        LET g == Translated
            p == g.pchs
        IN  /\ IF p.cylinders <= 1024 /\ p.heads <= 16 /\ p.spt <= 63
               THEN g.translation = ATA_TRANSLATION_NONE /\ g.lchs = p
               ELSE IF C12_Large(p)
                    THEN g.translation = ATA_TRANSLATION_LARGE
                    ELSE g.translation = ATA_TRANSLATION_LBA
            /\ p = Chs(1024, 16, 63) => g.lchs = p
            /\ p = Chs(2000, 16, 63) => g.lchs = Chs(1000, 32, 63)

(***************************************************************************)
(* C13: LBA-assist translation of a disk of 16,514,064 sectors: the count  *)
(* exceeds 63*255*1024 = 16,450,560, so the logical geometry is 1024       *)
(* cylinders, 255 heads, 63 sectors per track.  In general LBA-assist      *)
(* gives 63 sectors per track; beyond 16,450,560 sectors 255 heads and     *)
(* 1024 cylinders; up to there, with sect = sectors / 63, the lowest of    *)
(* 16, 32, 64, 128, 255 heads that is at least sect / 1024, and            *)
(* sect / heads cylinders, at most 1024.                                   *)
(***************************************************************************)
C13_Ladder == {16, 32, 64, 128, 255}

C13_IsLba ==
    pc = "translated" /\ Translated.translation = ATA_TRANSLATION_LBA

C13_LbaAssist ==
    C13_IsLba =>
        LET g == Translated
            sect == g.sectors \div 63
            q == sect \div 1024
        IN  /\ g.lchs.spt = 63
            /\ g.sectors = 16514064 => g.lchs = Chs(1024, 255, 63)
            /\ g.sectors > 16450560 => g.lchs = Chs(1024, 255, 63)
            /\ g.sectors <= 16450560 =>
                 /\ g.lchs.heads \in C13_Ladder
                 /\ q <= g.lchs.heads
                 /\ \A r \in C13_Ladder : q <= r => g.lchs.heads <= r
                 /\ g.lchs.cylinders =
                      IF sect \div g.lchs.heads > 1024 THEN 1024
                      ELSE sect \div g.lchs.heads

\* C13 as the claim has it: 64 heads for 16,514,064 sectors.
C13_LbaAssistAsClaimed ==
    (C13_IsLba /\ Translated.sectors = 16514064) =>
        /\ Translated.lchs.spt = 63
        /\ Translated.lchs.heads = 64
        /\ Translated.lchs.cylinders <= 1024

C13_Witness ==
    /\ C13_IsLba
    /\ cfg.coreboot
    /\ Translated.pchs = Chs(16383, 16, 63)
    /\ Translated.sectors = 16514064
    /\ Translated.lchs = Chs(1024, 255, 63)

(***************************************************************************)
(* C14: whatever the translation (none, large, LBA-assist, revised ECHS)   *)
(* and the geometry, the logical cylinder count stored is at most 1024.    *)
(***************************************************************************)
C14_CylindersClamped ==
    pc = "translated" => Translated.lchs.cylinders <= 1024

\* A disk of 2000 cylinders left untranslated by the CMOS flags: only the
\* clamp brings the cylinders down.
C14_Witness ==
    /\ pc = "translated"
    /\ Translated.translation = ATA_TRANSLATION_NONE
    /\ Translated.pchs.cylinders = 2000
    /\ Translated.lchs.cylinders = 1024

\* The units of a channel, and what the scan holds against a unit.
Master(c) == 2 * c
Slave(c) == 2 * c + 1
InIdmap(d) == \E t \in 0..1, n \in Devices : idmap[t][n] = d
Configured(c) == iobase[c].iobase1 # 0

(***************************************************************************)
(* C17: in ata_detect a configured channel on which neither the master nor *)
(* the slave echoes the 0x55/0xAA pattern causes no reset and no           *)
(* identification, leaves both slots with type none and adds no entry to   *)
(* either id map, and the scan goes on behind it: it ends only at the      *)
(* first channel that is not configured or behind the last slot, and every *)
(* channel before that one was probed.                                     *)
(***************************************************************************)
C17_Silent(c) ==
    /\ det.phase = "scan"
    /\ Configured(c)
    /\ det.driveid = Slave(c) + 1
    /\ det.seen[Master(c)].echo # <<>>
    /\ det.seen[Master(c)].echo # <<85, 170>>
    /\ det.seen[Slave(c)].echo # <<>>
    /\ det.seen[Slave(c)].echo # <<85, 170>>

C17_Untouched(d) ==
    /\ det.seen[d].reset = FALSE
    /\ det.seen[d].atapi = "no"
    /\ det.seen[d].ata = "no"
    /\ devtype[d] = ATA_TYPE_NONE
    /\ ~InIdmap(d)

C17_ScanEnd ==
    pc = "detect_done" =>
        /\ \/ det.driveid = CONFIG_MAX_ATA_DEVICES
           \/ /\ det.driveid \in Devices
              /\ SlaveOf(det.driveid) = 0
              /\ ~Configured(ChannelOf(det.driveid))
        /\ \A c \in Channels : Master(c) < det.driveid => Configured(c)

C18_Unit(d) ==
    LET u == det.seen[d]
    IN  /\ u.atapi # "no" => u.echo = <<85, 170>>
        /\ u.ata # "no" =>
             u.atapi = "failed" /\ u.st = "set" /\ u.rdy = "ready"
        /\ u.atapi = "passed" => u.ata = "no" /\ devtype[d] = ATA_TYPE_ATAPI
        /\ u.ata = "passed" => devtype[d] = ATA_TYPE_ATA
        /\ ~(u.atapi = "passed" /\ u.ata = "passed")
        /\ (d < det.driveid /\ u.echo # <<>> /\ u.atapi # "passed"
              /\ u.ata # "passed") =>
             devtype[d] = ATA_TYPE_NONE /\ ~InIdmap(d)

C18_Typed(d) ==
    /\ devtype[d] \in {ATA_TYPE_NONE, ATA_TYPE_ATA, ATA_TYPE_ATAPI}
    /\ Cardinality({n \in Devices : idmap[1][n] = d}) =
          IF devtype[d] = ATA_TYPE_ATAPI THEN 1 ELSE 0
    /\ \A n \in Devices : idmap[0][n] # d

\* The command being sent by ata_cmd_data for the scan.
C18_Identifying(command) ==
    /\ det.phase = "scan"
    /\ call = "ata_cmd_data"
    /\ op.command = command

C18_IdentifyOrder ==
    det.phase = "scan" =>
        /\ \A d \in Devices : C18_Unit(d) /\ C18_Typed(d)
        /\ C18_Identifying(ATA_CMD_IDENTIFY_DEVICE) =>
             /\ op.driveid = det.driveid
             /\ det.seen[op.driveid].atapi = "failed"
             /\ det.seen[op.driveid].st = "set"
             /\ det.seen[op.driveid].rdy = "ready"
             /\ devtype[op.driveid] = ATA_TYPE_NONE
        /\ C18_Identifying(ATA_CMD_IDENTIFY_DEVICE_PACKET) =>
             /\ op.driveid = det.driveid
             /\ det.seen[op.driveid].ata = "no"
             /\ devtype[op.driveid] = ATA_TYPE_NONE

\* The master of channel 0 was found to be an ATAPI device, and the slave
\* failed the ATAPI identification and passed the ATA one.
C18_Witness ==
    /\ det.phase = "scan"
    /\ det.seen[0].atapi = "passed" /\ det.seen[0].ata = "no"
    /\ devtype[0] = ATA_TYPE_ATAPI /\ idmap[1][0] = 0
    /\ det.seen[1].atapi = "failed" /\ det.seen[1].ata = "passed"
    /\ devtype[1] = ATA_TYPE_ATA

(***************************************************************************)
(* C11: once hard_drive_setup is over every device slot has type none,     *)
(* ATA or ATAPI, and no later ata_reset, ata_cmd_data, cdrom_read,         *)
(* cdrom_read_512, ata_cmd_packet or map_drive changes the type, the mode  *)
(* or the block size of a device or the iobase1 or iobase2 of a channel.   *)
(***************************************************************************)
C11_SetupOver == det.phase = "over"

C11_Types ==
    C11_SetupOver =>
        \A d \in Devices :
            devtype[d] \in {ATA_TYPE_NONE, ATA_TYPE_ATA, ATA_TYPE_ATAPI}

C11_Step ==
    C11_SetupOver => UNCHANGED <<devtype, devmode, blksize, iobase>>

C11_TablesFixed == []C11_Types /\ [][C11_Step]_vars

\* After the setup a disk was mapped and a read of the cdrom succeeded.
C11_Witness ==
    /\ C11_SetupOver
    /\ hdcount = 1
    /\ pc = "done" /\ call = "cdrom_read" /\ ret = 0
    /\ devtype[op.driveid] = ATA_TYPE_ATAPI
    /\ devtype[1 - op.driveid] = ATA_TYPE_ATA

(***************************************************************************)
(* C19: map_drive(driveid) takes the BIOS number n = the hdcount before    *)
(* the call, sets idmap[0][n] = driveid and hdcount = n + 1; for n 0 or 1  *)
(* fdpt[n] holds the logical and the physical geometry of the device       *)
(* mapped, device driveid, in the translated form, with the 0xA0 signature *)
(* and the checksum, exactly when the two geometries differ.               *)
(***************************************************************************)
C19_Table(g) ==
    IF g.lchs = g.pchs
    THEN FdptStandard(NoFdpt, g)
    ELSE FdptTranslated(FdptStandard(NoFdpt, g), g)

C19_FdptOfMappedDevice ==
    C11_SetupOver =>
        /\ hdcount <= CONFIG_MAX_ATA_DEVICES
        /\ \A n \in Devices :
              IF n < hdcount
              THEN /\ idmap[0][n] \in Devices
                   /\ devtype[idmap[0][n]] = ATA_TYPE_ATA
                   /\ n <= 1 => fdpt[n] = C19_Table(geom[idmap[0][n]])
              ELSE /\ idmap[0][n] = CONFIG_MAX_ATA_DEVICES
                   /\ n <= 1 => fdpt[n] = NoFdpt

(***************************************************************************)
(* ata_cmd_data under fairness: the processor goes on with the operation   *)
(* it has started, and the clock advances while await_ide polls.  Blocks   *)
(* beyond MaxBlocks are exchanged as the others are, but no longer         *)
(* counted: nblk, current and the progress counter stay at MaxBlocks, and  *)
(* the waits that follow them are not kept in iolog.                       *)
(***************************************************************************)
\* ata.c:261-289: a block beyond MaxBlocks.
XferBlockOn ==
    /\ pc = "xfer_block"
    /\ nblk = MaxBlocks
    /\ await_not_bsy("xfer_status")
    /\ UNCHANGED <<devs, env, sector_count, call, args, resetv, olddh, status,
                   results, xferv, iolog>>

\* ata.c:290-317: after the wait that follows a block beyond MaxBlocks:
\* current is above every count drawn.
XferStatusOn ==
    /\ pc = "xfer_status"
    /\ current = MaxBlocks
    /\ LET r == XferResult(status, MaxBlocks + 1)
       IN  IF r = 1
           THEN pc' = "xfer_block" /\ UNCHANGED <<xret, ret>>
           ELSE XferReturn(r)
    /\ iolog' = SubSeq(iolog, 1, Len(iolog) - 1)
    /\ UNCHANGED <<devs, env, sector_count, call, args, waitv, resetv, olddh,
                   status, sres, xferv>>

\* ata.c:290-317: after the wait that follows a counted block.
XferStatusCounted == current < MaxBlocks /\ XferStatus

\* Reads of the disk that is drive 0.
InitLive ==
    /\ Init
    /\ devtype[0] = ATA_TYPE_ATA
    /\ sector_count = 0

CallLive ==
    \E n \in 0..MaxCount :
        CallAtaCmdData(0, ATA_CMD_READ_SECTORS, Lba(0, 1), n)

\* The steps of the operation that is running, and its return.
StepLive ==
    \/ Return \/ AwaitIde
    \/ SendCmdDisk \/ SendCmd \/ AtaCmdDataRet
    \/ AtaTransferEntry \/ XferBlock \/ XferBlockOn
    \/ XferStatusCounted \/ XferStatusOn

\* ata.c:49: the clock has advanced between two readings.
AwaitTick == AwaitIde /\ left' < left

NextLive == CallLive \/ StepLive

SpecLive ==
    InitLive /\ [][NextLive]_vars /\ WF_vars(StepLive) /\ WF_vars(AwaitTick)

(***************************************************************************)
(* C16: every operation terminates, whatever the device shows in its       *)
(* status and whatever the lba and the count, as long as the clock         *)
(* advances: an operation that was started returns.                        *)
(***************************************************************************)
C16_Running == pc # "idle"

C16_Terminates == C16_Running ~> (pc = "done")

(***************************************************************************)
(* Two transfers in flight: ata_transfer for drive 0 (channel 0) and for   *)
(* drive 2 (channel 1), each with its own locals, on the one processor;    *)
(* between two steps of the one that runs the other may be resumed.  The   *)
(* progress counter of the EBDA (ata.c:252, 295) is the only thing they    *)
(* share.                                                                  *)
(***************************************************************************)
\* The locals of the transfer that runs.
Running ==
    [used |-> TRUE, pc |-> pc, call |-> call, op |-> op, xf |-> xf,
     aw |-> aw, left |-> left, retpc |-> retpc, status |-> status,
     xret |-> xret, ret |-> ret, current |-> current, nblk |-> nblk,
     stored |-> stored, discarded |-> discarded, written |-> written,
     iolog |-> iolog]

\* A transfer about to start: a read of count blocks of 512 bytes.
TransferOf(driveid, count) ==
    [used |-> TRUE, pc |-> "ata_transfer", call |-> "ata_transfer",
     op |-> [NoOp EXCEPT !.driveid = driveid],
     xf |-> TransferArgs(FALSE, count, IDE_SECTOR_SIZE, 0, 0),
     aw |-> NoAw, left |-> 0, retpc |-> "none", status |-> 0,
     xret |-> 0, ret |-> 0, current |-> 0, nblk |-> 0,
     stored |-> 0, discarded |-> 0, written |-> 0, iolog |-> <<>>]

InitInterleave ==
    /\ TablesOf([d \in Devices |-> IF d \in {0, 2} THEN ATA_TYPE_ATA
                                   ELSE ATA_TYPE_NONE],
                [d \in Devices |-> ATA_MODE_PIO16])
    /\ iobase = LegacyPorts
    /\ cfg = [coreboot |-> TRUE]
    /\ hdcount = 0
    /\ fdpt = [n \in 0..1 |-> NoFdpt]
    /\ det = NoDet
    /\ sector_count = 0
    /\ \E n \in 1..MaxCount :
          LET t == TransferOf(0, n)
          IN  /\ pc = t.pc /\ call = t.call /\ op = t.op /\ xf = t.xf
              /\ aw = t.aw /\ left = t.left /\ retpc = t.retpc
              /\ status = t.status /\ xret = t.xret /\ ret = t.ret
              /\ current = t.current /\ nblk = t.nblk
              /\ stored = t.stored /\ discarded = t.discarded
              /\ written = t.written /\ iolog = t.iolog
    /\ \E n \in 1..MaxCount : other = TransferOf(2, n)
    /\ cmd = NoCmd /\ pkt = NoPkt /\ emu = NoEmu
    /\ rleft = 0 /\ retries = 0 /\ olddh = 0 /\ sres = 0

\* The transfer that runs is suspended and the other resumed; dt ticks
\* have passed since the other was suspended in its wait.
Switch ==
    /\ other.used
    /\ other.pc # "done"
    /\ other' = Running
    /\ pc' = other.pc /\ call' = other.call /\ op' = other.op
    /\ xf' = other.xf /\ aw' = other.aw /\ retpc' = other.retpc
    /\ status' = other.status /\ xret' = other.xret /\ ret' = other.ret
    /\ current' = other.current /\ nblk' = other.nblk
    /\ stored' = other.stored /\ discarded' = other.discarded
    /\ written' = other.written /\ iolog' = other.iolog
    /\ IF other.pc = "await_ide"
       THEN \E dt \in 0..TimeoutTicks : left' = Dec(other.left, dt)
       ELSE left' = other.left
    /\ UNCHANGED <<devs, det, sector_count, cmd, pkt, emu, resetv, olddh,
                   sres>>

NextInterleave == AtaTransfer \/ AwaitIde \/ Switch

SpecInterleave == InitInterleave /\ [][NextInterleave]_vars

(***************************************************************************)
(* C20: a transfer on channel 0 and a transfer on channel 1 interleaved    *)
(* step by step do not interfere: each returns what it returns when the    *)
(* two run one after the other, and the progress count reported at its     *)
(* return is the number of blocks it completed, as it is then.             *)
(***************************************************************************)
C20_NoInterference ==
    pc = "done" =>
        /\ sector_count = current
        /\ ret = 0 => current = xf.count

(***************************************************************************)
(* C22: under large translation, and revised ECHS which falls through to   *)
(* it, the cylinders are halved and the heads doubled only while the       *)
(* cylinders exceed 1024, and the loop stops rather than let the heads     *)
(* exceed 127: for every physical geometry of at most 16 heads the logical *)
(* head count is at most 127.                                              *)
(***************************************************************************)
C22_Shifted ==
    /\ pc = "translated"
    /\ Translated.translation \in {ATA_TRANSLATION_LARGE, ATA_TRANSLATION_RECHS}

C22_LargeHeads ==
    (C22_Shifted /\ Translated.pchs.heads <= 16) =>
        Translated.lchs.heads <= 127

(***************************************************************************)
(* C23: under revised ECHS with 16 physical heads the heads become 15 and  *)
(* the cylinders floor(min(cylinders, 61439) * 16 / 15), which fits in 16  *)
(* bits for every 16-bit cylinder count; with any other head count the     *)
(* geometry enters the bit-shift step unchanged.  The geometry stored is   *)
(* the bit-shift and the clamp applied to that.                            *)
(***************************************************************************)
C23_Rechs ==
    pc = "translated" /\ Translated.translation = ATA_TRANSLATION_RECHS

C23_Scaled(c) == ((IF c > 61439 THEN 61439 ELSE c) * 16) \div 15

C23_RevisedEchs ==
    C23_Rechs =>
        LET p == Translated.pchs
            e == IF p.heads = 16
                 THEN Chs(C23_Scaled(p.cylinders), 15, p.spt)
                 ELSE p
        IN  /\ e.cylinders < 65536
            /\ Translated.lchs = ClampCylinders(TranslateLarge(e))

\* 65535 cylinders of 16 heads: limited to 61439, scaled to 65534 of 15
\* heads, then shifted four times and clamped.
C23_Witness ==
    /\ C23_Rechs
    /\ Translated.pchs = Chs(65535, 16, 63)
    /\ Translated.lchs = Chs(1024, 240, 63)

(***************************************************************************)
(* C25: under LBA-assist, for every total sector count, the logical        *)
(* geometry has 63 sectors per track and 16, 32, 64, 128 or 255 heads, and *)
(* its capacity never exceeds the drive: cylinders * heads * 63 is at most *)
(* the total sector count; beyond 63*255*1024 sectors the result is        *)
(* exactly 255 heads and 1024 cylinders.                                   *)
(***************************************************************************)
C25_LbaCapacity ==
    C13_IsLba =>
        LET g == Translated
        IN  /\ g.lchs.spt = 63
            /\ g.lchs.heads \in C13_Ladder
            /\ g.lchs.cylinders * g.lchs.heads * 63 <= g.sectors
            /\ g.sectors > 63 * 255 * 1024 =>
                 g.lchs.heads = 255 /\ g.lchs.cylinders = 1024

\* A disk of 1,000,000 sectors: 992 cylinders of 16 heads, 999,936 sectors.
C25_Witness ==
    /\ C13_IsLba
    /\ Translated.sectors = 1000000
    /\ Translated.lchs = Chs(992, 16, 63)

(***************************************************************************)
(* C21: during ata_detect a slave that answers the probe is not reset if   *)
(* and only if the master of its channel answered and was reset just       *)
(* before it; so a channel with at least one answering unit is reset       *)
(* exactly once during the scan, and a channel on which no unit answers is *)
(* never reset.                                                            *)
(***************************************************************************)
C21_Responds(d) == Echoed(det.seen[d].echo)

C21_Resets(c) == {d \in {Master(c), Slave(c)} : det.seen[d].reset}

C21_Channel(c) ==
    LET m == Master(c)
        s == Slave(c)
    IN  /\ det.seen[m].reset <=> C21_Responds(m)
        /\ det.seen[s].reset => C21_Responds(s)
        /\ C21_Responds(s) =>
             (~det.seen[s].reset <=>
                 /\ C21_Responds(m) /\ det.seen[m].reset
                 /\ det.last_reset_driveid = m)
        /\ Cardinality(C21_Resets(c)) =
             IF C21_Responds(m) \/ C21_Responds(s) THEN 1 ELSE 0

C21_ResetOnce ==
    /\ \A c \in Channels : C21_Channel(c)
    /\ (det.phase = "scan" /\ call = "ata_reset") =>
          /\ det.seen[det.driveid].reset
          /\ C21_Resets(ChannelOf(det.driveid)) = {det.driveid}

\* Master and slave of the secondary channel both answer: the master has
\* been reset, the slave goes on to the ATAPI identification without one.
C21_Witness ==
    /\ pc = "init_drive_atapi" /\ det.driveid = 3
    /\ C21_Responds(2) /\ C21_Responds(3)
    /\ det.seen[2].reset /\ ~det.seen[3].reset
    /\ det.last_reset_driveid = 2

(***************************************************************************)
(* C24: for every vlba and every vcount >= 1, cdrom_read_512 asks for the  *)
(* physical blocks lba = vlba div 4 to elba = (vlba + vcount - 1) div 4,   *)
(* with before = vlba mod 4 and after = 3 - ((vlba + vcount - 1) mod 4),   *)
(* both in 0..3; on success the progress counter is the vcount asked for   *)
(* (count * 4 - before - after), count * 2048 bytes have been taken from   *)
(* the device and vcount * 512 bytes stored in the buffer; on failure the  *)
(* progress counter is 0.                                                  *)
(***************************************************************************)
C24_Case ==
    /\ call = "cdrom_read_512" /\ pc # "cdrom_read_512"
    /\ emu.vcount >= 1

C24_Mapped ==
    LET velba == emu.vlba + emu.vcount - 1
    IN  /\ emu.lba = emu.vlba \div 4
        /\ emu.elba = velba \div 4
        /\ op.count = emu.elba - emu.lba + 1
        /\ emu.before = emu.vlba % 4
        /\ emu.after = 3 - (velba % 4)
        /\ emu.before \in 0..3 /\ emu.after \in 0..3

C24_Succeeded ==
    /\ sector_count = emu.vcount
    /\ op.count * 4 - emu.before - emu.after = emu.vcount
    /\ discarded + stored = op.count * CDROM_SECTOR_SIZE
    /\ stored = emu.vcount * 512

C24_Emulated512 ==
    C24_Case =>
        /\ C24_Mapped
        /\ (Returned /\ ret = 0) => C24_Succeeded
        /\ (Returned /\ ret # 0) => sector_count = 0

=============================================================================
